---- MODULE Spec2Model ----
(***************************************************************************)
(* Two-tier TTL cache of a-stock-analysis/scripts/data_manager.py:         *)
(* DataManager (memory tier, disk index, blob files, index document),      *)
(* the class-level TTL table, the expiry sweep and the @cached wrapper.    *)
(*                                                                         *)
(* Every handler is an operator from a store state (a record of the        *)
(* program's variables) to the store state it leaves and the value it      *)
(* returns; the actions install that state.  Time is in seconds.           *)
(* The md5 digest of the raw key is taken to be injective, so a cache key  *)
(* is modelled by the raw key string that is hashed.                       *)
(* CacheEntry.created_at, last_accessed and metadata are written but never *)
(* read by the code and are left out.                                      *)
(***************************************************************************)
EXTENDS Integers, Sequences, FiniteSets, TLC

VARIABLES
    memory_cache,          \* DataManager.memory_cache: cache key -> CacheEntry
    disk_cache_index,      \* DataManager.disk_cache_index: cache key -> row
    index_file,            \* content of <cache_dir>/cache_index.json
    blobs,                 \* the <cache_key>.pkl files of cache_dir
    DEFAULT_CACHE_CONFIG,  \* class attribute DataManager.DEFAULT_CACHE_CONFIG
    now,                   \* datetime.now(), seconds
    cache_lock,            \* DataManager.cache_lock, a threading.RLock
    threads,               \* per thread: where it is in a DataManager call
    _data_manager,         \* module global _data_manager: 0 is None, n > 0
                           \* is the n-th DataManager constructed
    constructed,           \* number of DataManager objects constructed,
                           \* each of which started one sweeper thread
    getters,               \* per thread: where it is in get_data_manager
    wrappers,              \* per thread: where it is in a decorated call,
                           \* and its local original_ttl
    index_cache,           \* index_analyzer: the pickle file of the key
                           \* basic_info_<index_code> in CACHE_DIR
    hours,                 \* index_analyzer: datetime.now(), hours
    fetched,               \* history: the latest fetch_index_basic_info call
    damaged,               \* number of index rows damaged from outside so far
    flights,               \* per thread: where it is in one call of a
                           \* decorated function, whether it invoked the
                           \* function, and what it got and returned
    lastSet,               \* history: per key, the payload and expiry of the
                           \* latest set not followed by delete / clear_all
    last                   \* history: the most recent call and what it returned

\* the variables of DataManager and its wrapper, of get_data_manager, and of
\* index_analyzer
cacheVars == <<memory_cache, disk_cache_index, index_file, blobs,
               DEFAULT_CACHE_CONFIG, now, cache_lock, threads, lastSet, last>>
singletonVars == <<_data_manager, constructed, getters>>
wrapperVars == <<wrappers>>
analyzerVars == <<index_cache, hours, fetched>>
\* the variables of the code around the store
envVars == <<damaged, flights>>
processVars == <<singletonVars, wrapperVars, analyzerVars, envVars>>

vars == <<memory_cache, disk_cache_index, index_file, blobs,
          DEFAULT_CACHE_CONFIG, now, cache_lock, threads, processVars,
          lastSet, last>>

----------------------------------------------------------------------------
(* Bounds of the model *)

\* the clock advances in steps of TickStep seconds, MaxTicks times
TickStep == 150
MaxTicks == 3
\* CacheEntry.access_count is followed up to this value
MaxAccess == 1
\* index rows are damaged from outside at most MaxDamage times
MaxDamage == 1

----------------------------------------------------------------------------
(* Python values *)

\* A payload is named by id; len is len(str(payload)).
PyNone == [id |-> "None", len |-> 4]
SmallA == [id |-> "rowsA", len |-> 120]
EdgeB  == [id |-> "rowsB", len |-> 10000]
BigC   == [id |-> "rowsC", len |-> 10001]
\* an empty mapping, {}: not None, and falsy in Python
EmptyResult == [id |-> "{}", len |-> 2]
Payloads == {SmallA, EdgeB, BigC}

\* An argument value: a str, an int (decimal digits in v) or None.
Str(s) == [t |-> "str", v |-> s]
Int_(s) == [t |-> "int", v |-> s]
NoneArg == [t |-> "none", v |-> ""]

\* dict helpers (a dict is a function with a finite domain)
EmptyDict == [k \in {} |-> PyNone]
DictPut(d, k, v) == [x \in (DOMAIN d) \cup {k} |-> IF x = k THEN v ELSE d[x]]
DictDel(d, k) == [x \in (DOMAIN d) \ {k} |-> d[x]]
DictDelAll(d, ks) == [x \in (DOMAIN d) \ ks |-> d[x]]

----------------------------------------------------------------------------
(* Time and its ISO text *)

\* datetime.isoformat(): the text of an instant, as its minute and second
\* fields
isoformat(t) == [mm |-> t \div 60, ss |-> t % 60]
\* datetime.fromisoformat(): the instant a text denotes; ok is FALSE where
\* Python raises (a missing or non-text expire_time, a field out of range)
fromisoformat(text) ==
    IF DOMAIN text = {"mm", "ss"} /\ text.mm >= 0 /\ text.ss \in 0..59
    THEN [ok |-> TRUE, t |-> text.mm * 60 + text.ss]
    ELSE [ok |-> FALSE, t |-> 0]

----------------------------------------------------------------------------
(* CacheKeyDeriver: DataManager._get_cache_key *)

\* A params dict is the sequence of its <<name, value>> items in insertion
\* order; None and {} are both << >> (the code tests "if params").
\* The parameter names in use, in Python's string order (sort_keys=True).
KeyOrder == <<"__func__", "count", "end_date", "period", "start_date">>

HasName(params, name) == \E i \in 1..Len(params) : params[i][1] = name
Lookup(params, name) ==
    params[CHOOSE i \in 1..Len(params) : params[i][1] = name][2]

\* json.dumps of one value (no character of the modelled strings is escaped)
json_value(x) ==
    CASE x.t = "str"  -> "\"" \o x.v \o "\""
      [] x.t = "int"  -> x.v
      [] x.t = "none" -> "null"

RECURSIVE json_items(_, _, _)
json_items(params, i, first) ==
    IF i > Len(KeyOrder) THEN ""
    ELSE IF HasName(params, KeyOrder[i])
         THEN (IF first THEN "" ELSE ",")
              \o "\"" \o KeyOrder[i] \o "\":"
              \o json_value(Lookup(params, KeyOrder[i]))
              \o json_items(params, i + 1, FALSE)
         ELSE json_items(params, i + 1, first)

\* mutant of json_dumps: the items are written in insertion order
RECURSIVE json_items_Unsorted(_, _)
json_items_Unsorted(params, i) ==
    IF i > Len(params) THEN ""
    ELSE (IF i = 1 THEN "" ELSE ",")
         \o "\"" \o params[i][1] \o "\":" \o json_value(params[i][2])
         \o json_items_Unsorted(params, i + 1)
json_dumps_Unsorted(params) == "{" \o json_items_Unsorted(params, 1) \o "}"

\* json.dumps(params, sort_keys=True, separators=(',', ':'))
json_dumps(params) == "{" \o json_items(params, 1, TRUE) \o "}"

\* "|".join(key_parts); ok is FALSE where join raises TypeError (an
\* identifier that is not a str)
\* The key is the joined text itself: hashlib.md5(...).hexdigest() of it is
\* followed as a one-to-one renaming of that text.
_get_cache_key(data_type, identifier, params) ==
    IF identifier.t # "str"
    THEN [ok |-> FALSE, key |-> ""]
    ELSE [ok |-> TRUE,
          key |-> IF Len(params) > 0
                  THEN data_type \o "|" \o identifier.v \o "|" \o json_dumps(params)
                  ELSE data_type \o "|" \o identifier.v]

----------------------------------------------------------------------------
(* TTLPolicyTable: DEFAULT_CACHE_CONFIG and DataManager._get_cache_ttl *)

Seconds(n) == [ttl |-> n, unit |-> "seconds"]

InitialCacheConfig ==
    [dt \in {"realtime_quote", "kline_daily", "kline_weekly", "kline_monthly",
             "financial_statements", "valuation_metrics",
             "institutional_holdings", "fund_flow", "north_south_bound",
             "analyst_ratings", "sector_performance", "search_data"} |->
        CASE dt = "realtime_quote"         -> Seconds(60)
          [] dt = "kline_daily"            -> Seconds(300)
          [] dt = "kline_weekly"           -> Seconds(1800)
          [] dt = "kline_monthly"          -> Seconds(3600)
          [] dt = "financial_statements"   -> Seconds(86400)
          [] dt = "valuation_metrics"      -> Seconds(3600)
          [] dt = "institutional_holdings" -> Seconds(3600)
          [] dt = "fund_flow"              -> Seconds(300)
          [] dt = "north_south_bound"      -> Seconds(300)
          [] dt = "analyst_ratings"        -> Seconds(3600)
          [] dt = "sector_performance"     -> Seconds(600)
          [] dt = "search_data"            -> Seconds(1800)]

_get_cache_ttl(cfg, data_type) ==
    LET config == IF data_type \in DOMAIN cfg THEN cfg[data_type] ELSE Seconds(300)
    IN  CASE config.unit = "seconds" -> config.ttl
          [] config.unit = "minutes" -> config.ttl * 60
          [] config.unit = "hours"   -> config.ttl * 3600
          [] config.unit = "days"    -> config.ttl * 86400
          [] OTHER                   -> 300

----------------------------------------------------------------------------
(* CacheEntry *)

\* CacheEntry.__init__; g_exp is a history tag: the expiry that set assigned
\* to this payload, copied with the payload and never read by a handler.
CacheEntry(data, expire_time, source, g_exp) ==
    [data |-> data, expire_time |-> expire_time, source |-> source,
     access_count |-> 0, g_exp |-> g_exp]

is_expired(entry, t) == t > entry.expire_time

touch(entry) == [entry EXCEPT !.access_count = @ + 1]

----------------------------------------------------------------------------
(* Files of cache_dir *)

\* A blob file holds a pickled payload (with its history tag), or bytes that
\* pickle.load rejects.
Blob(data, g_exp) == [ok |-> TRUE, data |-> data, g_exp |-> g_exp]
CorruptBlob == [ok |-> FALSE, data |-> PyNone, g_exp |-> 0]

\* outcomes of the file writes of one call
IoOk == [blob |-> "ok", index |-> "ok"]

\* DataManager._save_disk_cache_index: rewrites the whole document; a
\* failure is caught and logged and leaves the document as it was
_save_disk_cache_index(s, io) ==
    IF io.index = "ok" THEN [s EXCEPT !.file = s.idx] ELSE s

\* mutant of _should_persist_to_disk: the threshold itself is persisted
_should_persist_AtThreshold(data_type, data) ==
    \/ data_type \in {"financial_statements", "kline_daily", "kline_weekly"}
    \/ data.len >= 10000

\* DataManager._should_persist_to_disk
_should_persist_to_disk(data_type, data) ==
    \/ data_type \in {"financial_statements", "kline_daily", "kline_weekly"}
    \/ data.len > 10000

----------------------------------------------------------------------------
(* The store: a record of the program's variables *)

\* what a call leaves and returns.  ret is PyNone where Python returns None;
\* ok is the bool a call returns (FALSE also where get raises); path is the
\* branch a get took; reads are the disk structures a get consulted; g_exp
\* is the history tag of the payload returned.
Result(s, ret, ok, path, reads, g_exp) ==
    [s |-> s, ret |-> ret, ok |-> ok, path |-> path, reads |-> reads,
     g_exp |-> g_exp]

\* mutants of Promote: the copy gets a fresh TTL; no copy is made
Promote_FreshTtl(s, key, data, expire_time, g_exp) ==
    [s EXCEPT !.mem = DictPut(s.mem, key,
                              CacheEntry(data, s.now + 300, "disk", g_exp))]
Promote_Skip(s, key, data, expire_time, g_exp) == s

\* mutant of Promote: the copy counts the get that made it
Promote_Counted(s, key, data, expire_time, g_exp) ==
    [s EXCEPT !.mem = DictPut(s.mem, key,
                              touch(CacheEntry(data, expire_time, "disk", g_exp)))]

\* the promotion of DataManager.get: the disk payload enters the memory tier
Promote(s, key, data, expire_time, g_exp) ==
    [s EXCEPT !.mem = DictPut(s.mem, key,
                              CacheEntry(data, expire_time, "disk", g_exp))]

\* mutant of DropExpiredRow: the row is dropped, the document is not rewritten
DropExpiredRow_Unsaved(s, key, io) == [s EXCEPT !.idx = DictDel(s.idx, key)]

\* the expired-row branch of DataManager.get
DropExpiredRow(s, key, io) ==
    _save_disk_cache_index([s EXCEPT !.idx = DictDel(s.idx, key)], io)

\* DataManager.get
DM_get(s, data_type, identifier, params, force_refresh, io) ==
    LET ck == _get_cache_key(data_type, identifier, params)
        key == ck.key
    IN
    IF force_refresh THEN Result(s, PyNone, TRUE, "forced", {}, 0)
    ELSE IF ~ck.ok THEN Result(s, PyNone, FALSE, "raised", {}, 0)
    ELSE IF key \in DOMAIN s.mem /\ ~is_expired(s.mem[key], s.now)
    THEN Result([s EXCEPT !.mem[key] = touch(@)], s.mem[key].data, TRUE,
                "memory_hit", {}, s.mem[key].g_exp)
    ELSE
    LET s1 == IF key \in DOMAIN s.mem
              THEN [s EXCEPT !.mem = DictDel(s.mem, key)] ELSE s
    IN
    IF key \notin DOMAIN s1.idx
    THEN Result(s1, PyNone, TRUE, "absent", {"index"}, 0)
    ELSE
    LET cache_info == s1.idx[key]
        expire_time == fromisoformat(cache_info.expire_time)
    IN
    IF ~expire_time.ok
    THEN Result(s1, PyNone, FALSE, "raised", {"index"}, 0)
    ELSE IF s1.now < expire_time.t
    THEN IF key \in DOMAIN s1.blobs /\ s1.blobs[key].ok
         THEN Result(Promote(s1, key, s1.blobs[key].data, expire_time.t,
                             s1.blobs[key].g_exp),
                     s1.blobs[key].data, TRUE, "disk_hit", {"index", "blob"},
                     s1.blobs[key].g_exp)
         ELSE Result(s1, PyNone, TRUE, "disk_error", {"index", "blob"}, 0)
    ELSE Result(DropExpiredRow(s1, key, io), PyNone, TRUE, "disk_expired",
                {"index"}, 0)

\* mutant of StoreInMemory: an entry already in memory is kept
StoreInMemory_KeepExisting(s, key, data, expire_time) ==
    [s EXCEPT !.mem = IF key \in DOMAIN s.mem THEN s.mem
                      ELSE DictPut(s.mem, key,
                              CacheEntry(data, expire_time, "api", expire_time)),
              !.lastSet = DictPut(s.lastSet, key,
                                  [val |-> data, exp |-> expire_time])]

\* the memory write of DataManager.set (with the history of the latest set)
StoreInMemory(s, key, data, expire_time) ==
    [s EXCEPT !.mem = DictPut(s.mem, key,
                              CacheEntry(data, expire_time, "api", expire_time)),
              !.lastSet = DictPut(s.lastSet, key,
                                  [val |-> data, exp |-> expire_time])]

\* the disk write of DataManager.set: the blob, then the index row, then
\* the index document.  io.blob = "open" : the blob file cannot be opened;
\* io.blob = "dump" : pickle.dump raises after the file was truncated.
PersistToDisk(s, key, data_type, identifier, data, expire_time, io) ==
    CASE io.blob = "open" -> [s |-> s, ok |-> FALSE]
      [] io.blob = "dump" ->
            [s |-> [s EXCEPT !.blobs = DictPut(s.blobs, key, CorruptBlob)],
             ok |-> FALSE]
      [] OTHER ->
            [s |-> _save_disk_cache_index(
                      [s EXCEPT !.blobs = DictPut(s.blobs, key,
                                                  Blob(data, expire_time)),
                                !.idx = DictPut(s.idx, key,
                                   [expire_time |-> isoformat(expire_time),
                                    data_type |-> data_type,
                                    identifier |-> identifier.v])], io),
             ok |-> TRUE]

\* DataManager.set
DM_set(s, data_type, identifier, data, params, io) ==
    LET ck == _get_cache_key(data_type, identifier, params)
        key == ck.key
        ttl == _get_cache_ttl(s.cfg, data_type)
        expire_time == s.now + ttl
    IN
    IF ~ck.ok THEN Result(s, PyNone, FALSE, "set", {}, 0)
    ELSE
    LET s1 == StoreInMemory(s, key, data, expire_time) IN
    IF _should_persist_to_disk(data_type, data)
    THEN LET w == PersistToDisk(s1, key, data_type, identifier, data,
                                expire_time, io)
         IN  Result(w.s, PyNone, w.ok, "set", {}, 0)
    ELSE Result(s1, PyNone, TRUE, "set", {}, 0)

\* os.remove of the blob files of the given keys (where they exist)
RemoveBlobs(s, keys) == [s EXCEPT !.blobs = DictDelAll(s.blobs, keys)]

\* DataManager.delete
DM_delete(s, data_type, identifier, params, io) ==
    LET ck == _get_cache_key(data_type, identifier, params)
        key == ck.key
    IN
    IF ~ck.ok THEN Result(s, PyNone, FALSE, "delete", {}, 0)
    ELSE
    LET s1 == [s EXCEPT !.mem = DictDel(s.mem, key),
                        !.lastSet = DictDel(s.lastSet, key)]
    IN
    IF key \in DOMAIN s1.idx
    THEN Result(_save_disk_cache_index(
                    [RemoveBlobs(s1, {key}) EXCEPT !.idx = DictDel(s1.idx, key)],
                    io),
                PyNone, TRUE, "delete", {}, 0)
    ELSE Result(s1, PyNone, TRUE, "delete", {}, 0)

\* DataManager.clear_all
DM_clear_all(s, io) ==
    Result(_save_disk_cache_index(
               [RemoveBlobs(s, DOMAIN s.idx) EXCEPT !.mem = EmptyDict,
                                                    !.idx = EmptyDict,
                                                    !.lastSet = EmptyDict],
               io),
           PyNone, TRUE, "clear_all", {}, 0)

\* mutant of _cleanup_expired_cache: the pass removes what expires at this
\* instant too, and always rewrites the index document
_cleanup_expiring_cache(s, io) ==
    LET expired_keys == {k \in DOMAIN s.mem : s.now >= s.mem[k].expire_time}
        s1 == [s EXCEPT !.mem = DictDelAll(s.mem, expired_keys)]
        expired_disk_keys ==
           {k \in DOMAIN s1.idx :
               s1.now >= fromisoformat(s1.idx[k].expire_time).t}
        s2 == [RemoveBlobs(s1, expired_disk_keys)
                 EXCEPT !.idx = DictDelAll(s1.idx, expired_disk_keys)]
    IN  [s |-> _save_disk_cache_index(s2, io), ret |-> PyNone, ok |-> TRUE,
         path |-> "sweep", reads |-> {}, g_exp |-> 0]

\* mutant of _cleanup_expired_cache: the pass empties the memory tier
_cleanup_whole_memory(s, io) ==
    Result([s EXCEPT !.mem = EmptyDict], PyNone, TRUE, "sweep", {}, 0)

\* DataManager._cleanup_expired_cache: one sweep pass.  A row whose
\* expire_time does not parse makes the pass raise after the memory tier was
\* cleaned (the sweeper's loop catches the exception).
_cleanup_expired_cache(s, io) ==
    LET expired_keys == {k \in DOMAIN s.mem : is_expired(s.mem[k], s.now)}
        s1 == [s EXCEPT !.mem = DictDelAll(s.mem, expired_keys)]
        parsed == [k \in DOMAIN s1.idx |-> fromisoformat(s1.idx[k].expire_time)]
        expired_disk_keys == {k \in DOMAIN s1.idx : s1.now > parsed[k].t}
        s2 == [RemoveBlobs(s1, expired_disk_keys)
                 EXCEPT !.idx = DictDelAll(s1.idx, expired_disk_keys)]
    IN
    IF \E k \in DOMAIN s1.idx : ~parsed[k].ok
    THEN Result(s1, PyNone, FALSE, "sweep", {}, 0)
    ELSE IF expired_disk_keys # {}
    THEN Result(_save_disk_cache_index(s2, io), PyNone, TRUE, "sweep", {}, 0)
    ELSE Result(s2, PyNone, TRUE, "sweep", {}, 0)

\* mutant of DM_init: the new store does not read the index document
DM_init_EmptyIndex(s) == [s EXCEPT !.mem = EmptyDict, !.idx = EmptyDict]

\* DataManager.__init__ over the same cache_dir (a new process, or
\* reset_data_manager followed by get_data_manager): an empty memory tier and
\* the index read back by _load_disk_cache_index.  The index document of the
\* model is always well-formed JSON.
DM_init(s) == [s EXCEPT !.mem = EmptyDict, !.idx = s.file]

----------------------------------------------------------------------------
(* MemoizingWrapper: cached(data_type, ttl, identifier_param) *)

NoDefault == [t |-> "nodefault", v |-> ""]
Param(name, default) == [name |-> name, default |-> default]

\* a decorated function: its __name__, the decorator's arguments and its
\* signature (parameter names with their defaults, in order)
Wrapped(name, data_type, has_ttl, ttl, identifier_param, sig) ==
    [name |-> name, data_type |-> data_type, has_ttl |-> has_ttl, ttl |-> ttl,
     identifier_param |-> identifier_param, sig |-> sig]

\* eastmoney_api.get_fund_flow(stock_code)
get_fund_flow ==
    Wrapped("get_fund_flow", "fund_flow", TRUE, 300, "stock_code",
            <<Param("stock_code", NoDefault)>>)
\* eastmoney_api.get_kline_daily(stock_code, count=100)
get_kline_daily ==
    Wrapped("get_kline_daily", "kline_daily", TRUE, 300, "stock_code",
            <<Param("stock_code", NoDefault), Param("count", Int_("100"))>>)
\* akshare_api.get_north_bound_flow()
get_north_bound_flow ==
    Wrapped("get_north_bound_flow", "north_bound_flow", TRUE, 300, "stock_code",
            << >>)
\* akshare_api.get_institute_hold_by_period(period)
get_institute_hold_by_period ==
    Wrapped("get_institute_hold_by_period", "institute_hold", TRUE, 21600,
            "stock_code", <<Param("period", NoDefault)>>)

\* akshare_api.get_kline_daily(stock_code, start_date=None, end_date=None)
ak_get_kline_daily ==
    Wrapped("get_kline_daily", "kline_daily", TRUE, 300, "stock_code",
            <<Param("stock_code", NoDefault), Param("start_date", NoneArg),
              Param("end_date", NoneArg)>>)

\* a call: positional arguments and keyword arguments
Call(args, kwargs) == [args |-> args, kwargs |-> kwargs]

\* Python truthiness of an argument value ("not identifier")
Truthy(x) == \/ x.t = "str" /\ x.v # ""
             \/ x.t = "int" /\ x.v # "0"

\* position of a name in a signature, 0 when it is not declared
IndexOf(sig, name) ==
    IF \E i \in 1..Len(sig) : sig[i].name = name
    THEN CHOOSE i \in 1..Len(sig) : sig[i].name = name
    ELSE 0

\* mutant of ResolveIdentifier: an undeclared identifier_param falls back to
\* the first positional argument
ResolveIdentifier_FirstArg(f, call) ==
    LET byName == IF HasName(call.kwargs, f.identifier_param)
                  THEN Lookup(call.kwargs, f.identifier_param) ELSE NoneArg
        idx == IndexOf(f.sig, f.identifier_param)
    IN  IF ~Truthy(byName) /\ Len(call.args) > 0
        THEN call.args[IF idx > 0 /\ idx <= Len(call.args) THEN idx ELSE 1]
        ELSE byName

\* lines 461-470: the identifier from the keyword arguments, else from the
\* positional argument at the index of identifier_param in the signature
ResolveIdentifier(f, call) ==
    LET byName == IF HasName(call.kwargs, f.identifier_param)
                  THEN Lookup(call.kwargs, f.identifier_param) ELSE NoneArg
        idx == IndexOf(f.sig, f.identifier_param)
    IN  IF ~Truthy(byName) /\ Len(call.args) > 0 /\ idx > 0 /\ idx <= Len(call.args)
        THEN call.args[idx]
        ELSE byName

\* inspect.signature(func).bind_partial(*args, **kwargs) and apply_defaults():
\* the <<name, value>> items of bound.arguments, in signature order
RECURSIVE BoundArguments(_, _, _)
BoundArguments(f, call, i) ==
    IF i > Len(f.sig) THEN << >>
    ELSE LET p == f.sig[i]
             rest == BoundArguments(f, call, i + 1)
         IN  IF i <= Len(call.args) THEN <<<<p.name, call.args[i]>>>> \o rest
             ELSE IF HasName(call.kwargs, p.name)
                  THEN <<<<p.name, Lookup(call.kwargs, p.name)>>>> \o rest
             ELSE IF p.default # NoDefault
                  THEN <<<<p.name, p.default>>>> \o rest
             ELSE rest

\* mutant of OtherParams: the keyword arguments as passed, without binding
\* the positional ones or applying the defaults
OtherParams_KeywordsOnly(f, call) ==
    LET keep == {i \in 1..Len(call.kwargs) :
                    call.kwargs[i][1] # f.identifier_param}
        RECURSIVE Pick(_)
        Pick(i) == IF i > Len(call.kwargs) THEN << >>
                   ELSE IF i \in keep THEN <<call.kwargs[i]>> \o Pick(i + 1)
                   ELSE Pick(i + 1)
    IN  Pick(1) \o <<<<"__func__", Str(f.name)>>>>

\* lines 480-483: the bound arguments without the identifier, plus __func__
OtherParams(f, call) ==
    LET bound == BoundArguments(f, call, 1)
        keep == {i \in 1..Len(bound) : bound[i][1] # f.identifier_param}
        RECURSIVE Pick(_)
        Pick(i) == IF i > Len(bound) THEN << >>
                   ELSE IF i \in keep THEN <<bound[i]>> \o Pick(i + 1)
                   ELSE Pick(i + 1)
    IN  Pick(1) \o <<<<"__func__", Str(f.name)>>>>

\* lines 497-501: the override is written into the TTL table
OverrideTtl(s, f) ==
    IF f.has_ttl
    THEN [s EXCEPT !.cfg = DictPut(s.cfg, f.data_type, Seconds(f.ttl))]
    ELSE s

\* lines 506-507: the table's ttl is put back when the category had one
RestoreTtl(s, f, before) ==
    IF f.has_ttl /\ f.data_type \in DOMAIN before.cfg
    THEN [s EXCEPT !.cfg[f.data_type].ttl = before.cfg[f.data_type].ttl]
    ELSE s

\* mutant of StoreResult: the result is stored under the key without the
\* call's other parameters
StoreResult_BareKey(s, f, identifier, other_params, result, io) ==
    RestoreTtl(DM_set(OverrideTtl(s, f), f.data_type, identifier, result,
                      << >>, io).s, f, s)

\* lines 495-509: dm.set under the override TTL, then the restore
StoreResult(s, f, identifier, other_params, result, io) ==
    RestoreTtl(DM_set(OverrideTtl(s, f), f.data_type, identifier, result,
                      other_params, io).s, f, s)

\* what a wrapped call leaves and returns; calls, gets and sets count the
\* invocations of the underlying function, of dm.get and of dm.set; raised
\* is TRUE where an exception leaves the wrapper
WResult(s, ret, raised, calls, gets, sets) ==
    [s |-> s, ret |-> ret, raised |-> raised, calls |-> calls, gets |-> gets,
     sets |-> sets]

\* mutant of wrapper: a store that fails raises out of the wrapper
wrapper_StoreOrRaise(s, f, call, result, io) ==
    LET identifier == ResolveIdentifier(f, call) IN
    IF ~Truthy(identifier) THEN WResult(s, result, FALSE, 1, 0, 0)
    ELSE
    LET other_params == OtherParams(f, call)
        got == DM_get(s, f.data_type, identifier, other_params, FALSE, io)
        stored == DM_set(OverrideTtl(got.s, f), f.data_type, identifier, result,
                         other_params, io)
    IN
    IF got.path = "raised" THEN WResult(got.s, PyNone, TRUE, 0, 1, 0)
    ELSE IF got.ret # PyNone THEN WResult(got.s, got.ret, FALSE, 0, 1, 0)
    ELSE IF result = PyNone THEN WResult(got.s, result, FALSE, 1, 1, 0)
    ELSE IF ~stored.ok THEN WResult(stored.s, PyNone, TRUE, 1, 1, 1)
    ELSE WResult(StoreResult(got.s, f, identifier, other_params, result, io),
                 result, FALSE, 1, 1, 1)

\* cached.<locals>.decorator.<locals>.wrapper; result is what the underlying
\* function returns when it is invoked
wrapper(s, f, call, result, io) ==
    LET identifier == ResolveIdentifier(f, call) IN
    IF ~Truthy(identifier) THEN WResult(s, result, FALSE, 1, 0, 0)
    ELSE
    LET other_params == OtherParams(f, call)
        got == DM_get(s, f.data_type, identifier, other_params, FALSE, io)
    IN
    IF got.path = "raised" THEN WResult(got.s, PyNone, TRUE, 0, 1, 0)
    ELSE IF got.ret # PyNone THEN WResult(got.s, got.ret, FALSE, 0, 1, 0)
    ELSE IF result = PyNone THEN WResult(got.s, result, FALSE, 1, 1, 0)
    ELSE WResult(StoreResult(got.s, f, identifier, other_params, result, io),
                 result, FALSE, 1, 1, 1)

----------------------------------------------------------------------------
(* The shared lock and the threads that call one DataManager *)

\* two threads of callers, and the daemon thread that
\* _start_cache_cleanup_thread starts
Callers == {"caller1", "caller2"}
Threads == Callers \cup {"sweeper"}

\* threading.RLock: the owning thread and the recursion level
Unlocked == [owner |-> "none", count |-> 0]
\* mutant of CanAcquire: the lock admits a thread while another owns it
CanAcquire_Always(lock, t) == TRUE
\* RLock.acquire() returns at once for the owner and when the lock is free,
\* and blocks otherwise
CanAcquire(lock, t) == lock.owner \in {"none", t}
Locked(lock, t) == [owner |-> t, count |-> lock.count + 1]
\* mutant of Unlock: leaving the with block keeps the lock
Unlock_Keep(lock) == lock
\* RLock.release(), the exit of "with self.cache_lock" on every path
Unlock(lock) ==
    IF lock.count = 1 THEN Unlocked ELSE [lock EXCEPT !.count = @ - 1]

\* DataManager.get_stats: reads both tiers, changes nothing
DM_get_stats(s) == Result(s, PyNone, TRUE, "stats", {}, 0)

\* a call in progress: the method and its arguments
\* (at is the datetime.now() a set read before it asked for the lock)
NoCall == [op |-> "none", data |-> PyNone, io |-> IoOk, at |-> 0]
Idle == [pc |-> "idle", call |-> NoCall]
ThreadCall(op, data, io) == [op |-> op, data |-> data, io |-> io, at |-> 0]

\* DataManager.set as a thread runs it: expire_time is computed before the
\* with block (lines 253-262), the tiers are written inside it
DM_set_at(s, call) ==
    LET r == DM_set([s EXCEPT !.now = call.at], "fund_flow", Str("600519"),
                    call.data, << >>, call.io)
    IN  [r EXCEPT !.s.now = s.now]

\* what the body of the with block of a call does to the store
Perform(s, call) ==
    CASE call.op = "get" ->
            DM_get(s, "fund_flow", Str("600519"), << >>, FALSE, call.io)
      [] call.op = "set" -> DM_set_at(s, call)
      [] call.op = "delete" ->
            DM_delete(s, "fund_flow", Str("600519"), << >>, call.io)
      [] call.op = "clear_all" -> DM_clear_all(s, call.io)
      [] call.op = "get_stats" -> DM_get_stats(s)
      [] call.op = "sweep" -> _cleanup_expired_cache(s, call.io)

----------------------------------------------------------------------------
(* The statements of the wrapper that threads can interleave *)

\* akshare_api.get_sw_level1_industry(stock_code): the table's TTL of
\* search_data is 1800, the decorator's is 86400
get_sw_level1_industry ==
    Wrapped("get_sw_level1_industry", "search_data", TRUE, 86400,
            "stock_code", <<Param("stock_code", NoDefault)>>)

\* original_ttl of a thread that has not read it, and Python's None
NoTtl == -1
NotWrapping == [pc |-> "idle", original_ttl |-> NoTtl]

\* lines 498-499: original_config.get('ttl')
ReadOriginalTtl(cfg, f) ==
    IF f.data_type \in DOMAIN cfg THEN cfg[f.data_type].ttl ELSE NoTtl

\* lines 506-507 with the thread's original_ttl
RestoreOriginalTtl(s, f, original_ttl) ==
    IF f.has_ttl /\ original_ttl # NoTtl
    THEN [s EXCEPT !.cfg[f.data_type].ttl = original_ttl]
    ELSE s

----------------------------------------------------------------------------
(* One decorated call per thread, with the same arguments *)

Fliers == {"flier1", "flier2", "flier3"}
NotFlying == [pc |-> "idle", invoked |-> FALSE, result |-> PyNone,
              ret |-> PyNone]
FlightFunction == get_fund_flow
FlightCall == Call(<<Str("600519")>>, << >>)
FlightParams == OtherParams(FlightFunction, FlightCall)

----------------------------------------------------------------------------
(* get_data_manager *)

\* the threads that call get_data_manager
Getters == {"g1", "g2", "g3"}
\* where a thread is in get_data_manager: made is the DataManager it
\* constructed, ret the instance its latest call returned (0: none yet)
NotCalling == [pc |-> "idle", made |-> 0, ret |-> 0]

----------------------------------------------------------------------------
(* index_analyzer: the pickle cache and fetch_index_basic_info *)

\* save_to_cache's default ttl_hours
DefaultTtlHours == 24
\* bounds of the analyzer's clock
HourStep == 12
MaxHourTicks == 3

\* what a source returns for the index, and Python's None
NoData == [source |-> "none"]
AkData == [source |-> "akshare"]
EmData == [source |-> "eastmoney"]

\* the cache file: absent, or the pickled dict of save_to_cache
NoFile == [exists |-> FALSE, data |-> NoData, timestamp |-> 0, ttl_hours |-> 0]

\* save_to_cache(key, data); a failure to open the file is caught and
\* leaves the file as it was
save_to_cache(file, data, t, save_ok) ==
    IF save_ok
    THEN [exists |-> TRUE, data |-> data, timestamp |-> t,
          ttl_hours |-> DefaultTtlHours]
    ELSE file

\* load_from_cache(key)
load_from_cache(file, t) ==
    IF ~file.exists THEN NoData
    ELSE IF t - file.timestamp > file.ttl_hours THEN NoData
    ELSE file.data

\* what one call finds: whether akshare is importable, what ak.index_zh_a_hist
\* does ("data", "empty", "raise"), what eastmoney_api.fetch_index_data does
\* ("data", "none", "raise"), whether the cache file can be written
Env(ak_available, ak, em, save_ok) ==
    [ak_available |-> ak_available, ak |-> ak, em |-> em, save_ok |-> save_ok]

\* what a call leaves and returns: queried are the sources asked, in order;
\* saved are the payloads handed to save_to_cache, in order
Fetched(file, ret, loaded, queried, saved) ==
    [file |-> file, ret |-> ret, loaded |-> loaded, queried |-> queried,
     saved |-> saved]
NotFetched == [called |-> FALSE, priority |-> << >>,
               env |-> Env(FALSE, "raise", "raise", FALSE),
               ret |-> NoData, loaded |-> NoData, queried |-> << >>,
               saved |-> << >>]

\* mutant of TrySources: the loop gives up after the first source it asked
RECURSIVE TrySources_FirstOnly(_, _, _, _, _)
TrySources_FirstOnly(file, priority, i, env, t) ==
    IF i > Len(priority) THEN Fetched(file, NoData, NoData, << >>, << >>)
    ELSE IF priority[i] = "akshare" /\ env.ak_available
    THEN IF env.ak = "data"
         THEN Fetched(save_to_cache(file, AkData, t, env.save_ok), AkData,
                      NoData, <<"akshare">>, <<AkData>>)
         ELSE Fetched(file, NoData, NoData, <<"akshare">>, << >>)
    ELSE IF priority[i] = "eastmoney"
    THEN IF env.em = "data"
         THEN Fetched(save_to_cache(file, EmData, t, env.save_ok), EmData,
                      NoData, <<"eastmoney">>, <<EmData>>)
         ELSE Fetched(file, NoData, NoData, <<"eastmoney">>, << >>)
    ELSE TrySources_FirstOnly(file, priority, i + 1, env, t)

\* the for loop of fetch_index_basic_info from the i-th source on
RECURSIVE TrySources(_, _, _, _, _)
TrySources(file, priority, i, env, t) ==
    IF i > Len(priority) THEN Fetched(file, NoData, NoData, << >>, << >>)
    ELSE IF priority[i] = "akshare" /\ env.ak_available
    THEN IF env.ak = "data"
         THEN Fetched(save_to_cache(file, AkData, t, env.save_ok), AkData,
                      NoData, <<"akshare">>, <<AkData>>)
         ELSE LET rest == TrySources(file, priority, i + 1, env, t)
              IN  [rest EXCEPT !.queried = <<"akshare">> \o @]
    ELSE IF priority[i] = "eastmoney"
    THEN IF env.em = "data"
         THEN Fetched(save_to_cache(file, EmData, t, env.save_ok), EmData,
                      NoData, <<"eastmoney">>, <<EmData>>)
         ELSE LET rest == TrySources(file, priority, i + 1, env, t)
              IN  [rest EXCEPT !.queried = <<"eastmoney">> \o @]
    ELSE TrySources(file, priority, i + 1, env, t)

\* fetch_index_basic_info(index_code, source_priority)
fetch_index_basic_info(file, priority, env, t) ==
    LET cached_data == load_from_cache(file, t) IN
    IF cached_data # NoData
    THEN Fetched(file, cached_data, cached_data, << >>, << >>)
    ELSE TrySources(file, priority, 1, env, t)

----------------------------------------------------------------------------
(* State machine *)

St == [mem |-> memory_cache, idx |-> disk_cache_index, file |-> index_file,
       blobs |-> blobs, cfg |-> DEFAULT_CACHE_CONFIG, now |-> now,
       lastSet |-> lastSet]

Install(s) ==
    /\ memory_cache' = s.mem
    /\ disk_cache_index' = s.idx
    /\ index_file' = s.file
    /\ blobs' = s.blobs
    /\ DEFAULT_CACHE_CONFIG' = s.cfg
    /\ now' = s.now
    /\ lastSet' = s.lastSet

Last(op, key, params, r, calls) ==
    [op |-> op, key |-> key, params |-> params, ret |-> r.ret, ok |-> r.ok,
     path |-> r.path, calls |-> calls, g_exp |-> r.g_exp]

\* the access counters stay within the bound
Counted(s) == \A k \in DOMAIN s.mem : s.mem[k].access_count <= MaxAccess

KeyOf(data_type, identifier, params) ==
    _get_cache_key(data_type, identifier, params).key

\* inputs of the direct calls
DataTypes == {"fund_flow", "kline_daily"}
Identifiers == {Str("600519")}
NoParams == << >>
MaxTime == TickStep * MaxTicks
Stored == {SmallA, BigC}
IoFaults == {[blob |-> "dump", index |-> "ok"], [blob |-> "open", index |-> "ok"],
             [blob |-> "ok", index |-> "fail"]}

Init ==
    /\ memory_cache = EmptyDict
    /\ disk_cache_index = EmptyDict
    /\ index_file = EmptyDict
    /\ blobs = EmptyDict
    /\ DEFAULT_CACHE_CONFIG = InitialCacheConfig
    /\ now = 0
    /\ cache_lock = Unlocked
    /\ threads = [t \in Threads |-> Idle]
    /\ _data_manager = 0
    /\ constructed = 0
    /\ getters = [t \in Getters |-> NotCalling]
    /\ wrappers = [t \in Callers |-> NotWrapping]
    /\ index_cache = NoFile
    /\ hours = 0
    /\ fetched = NotFetched
    /\ damaged = 0
    /\ flights = [t \in Fliers |-> NotFlying]
    /\ lastSet = EmptyDict
    /\ last = [op |-> "init", key |-> "", params |-> << >>, ret |-> PyNone,
               ok |-> TRUE, path |-> "", calls |-> 0, g_exp |-> 0]

Set(data_type, identifier, data, params, io) ==
    \E r \in {DM_set(St, data_type, identifier, data, params, io)} :
    /\ Install(r.s)
    /\ last' = Last("set", KeyOf(data_type, identifier, params), params, r, 0)
    /\ UNCHANGED <<cache_lock, threads, processVars>>

Get(data_type, identifier, params, force_refresh, io) ==
    \E r \in {DM_get(St, data_type, identifier, params, force_refresh, io)} :
    /\ Counted(r.s)
    /\ Install(r.s)
    /\ last' = Last("get", KeyOf(data_type, identifier, params), params, r, 0)
    /\ UNCHANGED <<cache_lock, threads, processVars>>

Delete(data_type, identifier, params, io) ==
    \E r \in {DM_delete(St, data_type, identifier, params, io)} :
    /\ Install(r.s)
    /\ last' = Last("delete", KeyOf(data_type, identifier, params), params,
                  r, 0)
    /\ UNCHANGED <<cache_lock, threads, processVars>>

ClearAll(io) ==
    \E r \in {DM_clear_all(St, io)} :
    /\ Install(r.s)
    /\ last' = Last("clear_all", "", << >>, r, 0)
    /\ UNCHANGED <<cache_lock, threads, processVars>>

\* one pass of the sweeper thread
Sweep(io) ==
    \E r \in {_cleanup_expired_cache(St, io)} :
    /\ Install(r.s)
    /\ last' = Last("sweep", "", << >>, r, 0)
    /\ UNCHANGED <<cache_lock, threads, processVars>>

\* the clock advances
Tick ==
    /\ now + TickStep <= MaxTime
    /\ now' = now + TickStep
    /\ last' = [op |-> "tick", key |-> "", params |-> << >>, ret |-> PyNone,
                ok |-> TRUE, path |-> "", calls |-> 0, g_exp |-> 0]
    /\ UNCHANGED <<memory_cache, disk_cache_index, index_file, blobs,
                   DEFAULT_CACHE_CONFIG, cache_lock, threads, lastSet,
                   processVars>>

\* a new store is constructed over the same cache_dir
Reconstruct ==
    /\ Install(DM_init(St))
    /\ UNCHANGED <<cache_lock, threads, processVars>>
    /\ last' = [op |-> "init", key |-> "", params |-> << >>, ret |-> PyNone,
                ok |-> TRUE, path |-> "", calls |-> 0, g_exp |-> 0]

\* a blob file is removed from cache_dir behind the store's back
BlobLost(key) ==
    /\ key \in DOMAIN blobs
    /\ blobs' = DictDel(blobs, key)
    /\ last' = [op |-> "blob_lost", key |-> key, params |-> << >>, ret |-> PyNone,
                ok |-> TRUE, path |-> "", calls |-> 0, g_exp |-> 0]
    /\ UNCHANGED <<memory_cache, disk_cache_index, index_file,
                   DEFAULT_CACHE_CONFIG, now, cache_lock, threads, lastSet,
                   processVars>>

\* a call of a decorated function whose underlying function would return
\* result
WrappedCall(f, call, result, io) ==
    \E r \in {wrapper(St, f, call, result, io)} :
    \E identifier \in {ResolveIdentifier(f, call)} :
    /\ Counted(r.s)
    /\ Install(r.s)
    /\ last' = [op |-> "call",
                key |-> IF Truthy(identifier)
                        THEN KeyOf(f.data_type, identifier, OtherParams(f, call))
                        ELSE "",
                params |-> IF Truthy(identifier) THEN OtherParams(f, call)
                           ELSE << >>,
                ret |-> r.ret, ok |-> ~r.raised,
                path |-> IF r.gets = 0 THEN "bypass"
                         ELSE IF r.raised THEN "raised"
                         ELSE IF r.calls = 0 THEN "hit" ELSE "miss",
                calls |-> r.calls, g_exp |-> 0]
    /\ UNCHANGED <<cache_lock, threads, processVars>>

----------------------------------------------------------------------------
(* Threads: a call is begun, waits for the lock, runs its with block, and  *)
(* leaves it                                                               *)

\* the calls a caller thread makes, and the pass of the sweeper thread
CallerCalls ==
    {ThreadCall("get", PyNone, IoOk),
     ThreadCall("set", BigC, IoOk),
     ThreadCall("set", BigC, [blob |-> "dump", index |-> "ok"]),
     ThreadCall("delete", PyNone, IoOk),
     ThreadCall("clear_all", PyNone, IoOk),
     ThreadCall("get_stats", PyNone, IoOk)}
SweeperCalls == {ThreadCall("sweep", PyNone, IoOk)}
\* caller1 reads, writes and asks for the statistics; caller2 reads and
\* removes; the sweeper thread runs its pass
CallsOf(t) ==
    CASE t = "caller1" ->
            {c \in CallerCalls : c.op \in {"get", "set", "get_stats"}}
      [] t = "caller2" ->
            {c \in CallerCalls : c.op \in {"get", "delete", "clear_all"}}
      [] OTHER -> SweeperCalls

\* the gets in progress
PendingGets ==
    {u \in Threads : threads[u].pc # "idle" /\ threads[u].call.op = "get"}
\* a get is begun while the access counters can stay within the bound
GetAllowed ==
    \A k \in DOMAIN memory_cache :
       memory_cache[k].access_count + Cardinality(PendingGets) < MaxAccess

\* a thread enters a method: the code that runs before "with
\* self.cache_lock" (key derivation; for set, the expiry)
Begin(t) ==
    /\ threads[t].pc = "idle"
    /\ \E call \in CallsOf(t) :
          /\ call.op = "get" => GetAllowed
          /\ threads' = [threads EXCEPT ![t] =
                            [pc |-> "acquire",
                             call |-> IF call.op = "set"
                                      THEN [call EXCEPT !.at = now] ELSE call]]
    /\ UNCHANGED <<memory_cache, disk_cache_index, index_file, blobs,
                   DEFAULT_CACHE_CONFIG, now, cache_lock, lastSet, last,
                   processVars>>

\* "with self.cache_lock": the thread waits until it can take the lock
Acquire(t) ==
    /\ threads[t].pc = "acquire"
    /\ CanAcquire(cache_lock, t)
    /\ cache_lock' = Locked(cache_lock, t)
    /\ threads' = [threads EXCEPT ![t].pc = "locked"]
    /\ UNCHANGED <<memory_cache, disk_cache_index, index_file, blobs,
                   DEFAULT_CACHE_CONFIG, now, lastSet, last,
                   processVars>>

\* the body of the with block: every read and write of the tiers
Access(t) ==
    /\ threads[t].pc = "locked"
    /\ \E r \in {Perform(St, threads[t].call)} :
          Install(r.s)
    /\ threads' = [threads EXCEPT ![t].pc = "release", ![t].call.at = 0]
    /\ UNCHANGED <<cache_lock, last, processVars>>

\* the exit of the with block, by return or by exception
Release(t) ==
    /\ threads[t].pc = "release"
    /\ cache_lock' = Unlock(cache_lock)
    /\ threads' = [threads EXCEPT ![t] = Idle]
    /\ UNCHANGED <<memory_cache, disk_cache_index, index_file, blobs,
                   DEFAULT_CACHE_CONFIG, now, lastSet, last,
                   processVars>>

NextThreads ==
    \/ \E t \in Threads : Begin(t)
    \/ \E t \in Threads : Acquire(t)
    \/ \E t \in Threads : Access(t)
    \/ \E t \in Threads : Release(t)
    \/ Tick

SpecThreads == Init /\ [][NextThreads]_vars

\* the scheduler runs every thread that can take a step, and a thread that
\* waits for the lock gets it after finitely many releases
SpecThreadsFair ==
    /\ Init /\ [][NextThreads]_vars
    /\ \A t \in Threads : WF_vars(Access(t)) /\ WF_vars(Release(t))
    /\ \A t \in Threads : SF_vars(Acquire(t))

\* the process ends while no call is in progress, and a new one constructs
\* its store over the same cache_dir
Restart ==
    /\ \A t \in Threads : threads[t].pc = "idle"
    /\ Reconstruct

NextThreadsRestart == NextThreads \/ Restart

SpecThreadsRestart == Init /\ [][NextThreadsRestart]_vars

----------------------------------------------------------------------------
(* Decorated calls of several threads, statement by statement *)

OverrideFunction == get_sw_level1_industry
OverrideCall == Call(<<Str("600519")>>, << >>)
OverrideParams == OtherParams(OverrideFunction, OverrideCall)

\* lines 486-492: dm.get; on a hit the call returns, on a miss the
\* underlying function is invoked and returns a result that is not None
WLookup(t) ==
    /\ wrappers[t].pc = "idle"
    /\ \E r \in {DM_get(St, OverrideFunction.data_type, Str("600519"),
                         OverrideParams, FALSE, IoOk)} :
          /\ Counted(r.s)
          /\ Install(r.s)
          /\ last' = Last("get", KeyOf(OverrideFunction.data_type,
                                       Str("600519"), OverrideParams),
                          OverrideParams, r, 0)
          /\ wrappers' = [wrappers EXCEPT ![t].pc =
                             IF r.ret # PyNone THEN "idle" ELSE "read"]
    /\ UNCHANGED <<envVars, cache_lock, threads, singletonVars, analyzerVars>>

\* lines 498-499: the thread reads the table's TTL
WReadOriginal(t) ==
    /\ wrappers[t].pc = "read"
    /\ wrappers' = [wrappers EXCEPT
                      ![t] = [pc |-> "override",
                              original_ttl |->
                                 ReadOriginalTtl(DEFAULT_CACHE_CONFIG,
                                                 OverrideFunction)]]
    /\ UNCHANGED <<envVars, cacheVars, singletonVars, analyzerVars>>

\* line 500: the override is written into the table
WOverride(t) ==
    /\ wrappers[t].pc = "override"
    /\ Install(OverrideTtl(St, OverrideFunction))
    /\ wrappers' = [wrappers EXCEPT ![t].pc = "set"]
    /\ UNCHANGED <<envVars, cache_lock, threads, last, singletonVars, analyzerVars>>

\* line 503: dm.set
WSet(t) ==
    /\ wrappers[t].pc = "set"
    /\ \E r \in {DM_set(St, OverrideFunction.data_type, Str("600519"),
                         SmallA, OverrideParams, IoOk)} :
          /\ Install(r.s)
          /\ last' = Last("set", KeyOf(OverrideFunction.data_type,
                                       Str("600519"), OverrideParams),
                          OverrideParams, r, 1)
    /\ wrappers' = [wrappers EXCEPT ![t].pc = "restore"]
    /\ UNCHANGED <<envVars, cache_lock, threads, singletonVars, analyzerVars>>

\* lines 506-511: the restore, and the return
WRestore(t) ==
    /\ wrappers[t].pc = "restore"
    /\ Install(RestoreOriginalTtl(St, OverrideFunction,
                                  wrappers[t].original_ttl))
    /\ wrappers' = [wrappers EXCEPT ![t] = NotWrapping]
    /\ UNCHANGED <<envVars, cache_lock, threads, last, singletonVars, analyzerVars>>

\* wrapped calls of two threads, direct sets of a third on the same
\* category, and clear_all
NextOverride ==
    \/ \E t \in Callers : WLookup(t)
    \/ \E t \in Callers : WReadOriginal(t)
    \/ \E t \in Callers : WOverride(t)
    \/ \E t \in Callers : WSet(t)
    \/ \E t \in Callers : WRestore(t)
    \/ Set("search_data", Str("600519"), SmallA, NoParams, IoOk)
    \/ ClearAll(IoOk)

SpecOverride == Init /\ [][NextOverride]_vars

----------------------------------------------------------------------------
(* get_data_manager, statement by statement *)

\* "if _data_manager is None"
CheckNone(t) ==
    /\ getters[t].pc \in {"idle", "done"}
    /\ getters' = [getters EXCEPT ![t].pc = IF _data_manager = 0
                                            THEN "construct" ELSE "return"]
    /\ UNCHANGED <<envVars, cacheVars, wrapperVars, analyzerVars, _data_manager, constructed>>

\* "DataManager(cache_dir=cache_dir, config=config)": __init__ creates the
\* lock, reads the index and starts the sweeper thread of the new object
Construct(t) ==
    /\ getters[t].pc = "construct"
    /\ constructed' = constructed + 1
    /\ getters' = [getters EXCEPT ![t].pc = "assign",
                                  ![t].made = constructed + 1]
    /\ UNCHANGED <<envVars, cacheVars, wrapperVars, analyzerVars, _data_manager>>

\* "_data_manager = ..."
Assign(t) ==
    /\ getters[t].pc = "assign"
    /\ _data_manager' = getters[t].made
    /\ getters' = [getters EXCEPT ![t].pc = "return"]
    /\ UNCHANGED <<envVars, cacheVars, wrapperVars, analyzerVars, constructed>>

\* "return _data_manager": the global is read again
Return(t) ==
    /\ getters[t].pc = "return"
    /\ getters' = [getters EXCEPT ![t].pc = "done", ![t].ret = _data_manager]
    /\ UNCHANGED <<envVars, cacheVars, wrapperVars, analyzerVars, _data_manager, constructed>>

NextSingleton ==
    \/ \E t \in Getters : CheckNone(t)
    \/ \E t \in Getters : Construct(t)
    \/ \E t \in Getters : Assign(t)
    \/ \E t \in Getters : Return(t)

SpecSingleton == Init /\ [][NextSingleton]_vars

----------------------------------------------------------------------------
(* Calls of index_analyzer.fetch_index_basic_info *)

DEFAULT_SOURCE_PRIORITY == <<"local_cache", "akshare", "eastmoney">>
Priorities == {DEFAULT_SOURCE_PRIORITY, <<"eastmoney", "akshare">>,
               <<"eastmoney">>, <<"tushare", "akshare">>, << >>}
Envs == {Env(a, ak, em, ok) : a \in BOOLEAN, ak \in {"data", "empty", "raise"},
                              em \in {"data", "none", "raise"},
                              ok \in BOOLEAN}

FetchIndexBasicInfo(priority, env) ==
    /\ \E r \in {fetch_index_basic_info(index_cache, priority, env, hours)} :
          /\ index_cache' = r.file
          /\ fetched' = [called |-> TRUE, priority |-> priority, env |-> env,
                         ret |-> r.ret, loaded |-> r.loaded,
                         queried |-> r.queried, saved |-> r.saved]
    /\ UNCHANGED <<envVars, cacheVars, singletonVars, wrapperVars, hours>>

\* the analyzer's clock advances
HourTick ==
    /\ hours + HourStep <= HourStep * MaxHourTicks
    /\ hours' = hours + HourStep
    /\ UNCHANGED <<envVars, cacheVars, singletonVars, wrapperVars, index_cache, fetched>>

\* the cache file is removed from CACHE_DIR
CacheFileRemoved ==
    /\ index_cache.exists
    /\ index_cache' = NoFile
    /\ UNCHANGED <<envVars, cacheVars, singletonVars, wrapperVars, hours, fetched>>

NextAnalyzer ==
    \/ \E priority \in Priorities, env \in Envs :
          FetchIndexBasicInfo(priority, env)
    \/ HourTick
    \/ CacheFileRemoved

SpecAnalyzer == Init /\ [][NextAnalyzer]_vars

\* the direct calls of one store on the given categories, without
\* file-system faults
Calls(types) ==
    \/ \E dt \in types, id \in Identifiers, v \in Stored :
          Set(dt, id, v, NoParams, IoOk)
    \/ \E dt \in types, id \in Identifiers, force \in BOOLEAN :
          Get(dt, id, NoParams, force, IoOk)
    \/ \E dt \in types, id \in Identifiers : Delete(dt, id, NoParams, IoOk)
    \/ ClearAll(IoOk)
    \/ Sweep(IoOk)
    \/ Tick

Next == Calls(DataTypes)

Spec == Init /\ [][Next]_vars

\* ... and the store may be constructed anew over its directory (the state
\* of a store that starts over a directory an earlier store left)
NextRestart == Calls(DataTypes) \/ Reconstruct

SpecRestart == Init /\ [][NextRestart]_vars

\* ... with file-system faults on one category: a blob file disappears, a
\* blob or index write of set fails
NextFaults ==
    \/ Calls({"fund_flow"})
    \/ Reconstruct
    \/ \E key \in DOMAIN blobs : BlobLost(key)
    \/ \E id \in Identifiers, v \in Stored, io \in IoFaults :
          Set("fund_flow", id, v, NoParams, io)

SpecFaults == Init /\ [][NextFaults]_vars

\* one store whose disk writes in set may fail, the files left alone from
\* outside
NextWriteFaults ==
    \/ Calls({"fund_flow"})
    \/ \E id \in Identifiers, v \in Stored, io \in IoFaults :
          Set("fund_flow", id, v, NoParams, io)

SpecWriteFaults == Init /\ [][NextWriteFaults]_vars

\* the decorated functions and the calls made of them
WrappedCalls ==
    {<<get_fund_flow, Call(<<Str("600519")>>, << >>)>>,
     <<get_fund_flow, Call(<< >>, <<<<"stock_code", Str("600519")>>>>)>>,
     <<get_fund_flow, Call(<<Str("")>>, << >>)>>,
     <<get_fund_flow, Call(<< >>, <<<<"stock_code", NoneArg>>>>)>>,
     <<get_kline_daily, Call(<<Str("600519")>>, << >>)>>,
     <<get_kline_daily, Call(<<Str("600519")>>, <<<<"count", Int_("100")>>>>)>>,
     <<get_kline_daily, Call(<<NoneArg, Int_("100")>>, << >>)>>,
     <<get_north_bound_flow, Call(<< >>, << >>)>>,
     <<get_institute_hold_by_period, Call(<<Str("20253")>>, << >>)>>,
     <<get_institute_hold_by_period, Call(<< >>, <<<<"period", Str("20253")>>>>)>>}
Returned == {PyNone, SmallA, BigC}
FundFlowParams == <<<<"__func__", Str("get_fund_flow")>>>>

\* wrapped calls on the global store, the sweeper, the clock, and direct
\* delete / clear_all
NextWrap ==
    \/ \E fc \in WrappedCalls, result \in Returned :
          WrappedCall(fc[1], fc[2], result, IoOk)
    \/ \E id \in Identifiers : Delete("fund_flow", id, FundFlowParams, IoOk)
    \/ ClearAll(IoOk)
    \/ Sweep(IoOk)
    \/ Tick

SpecWrap == Init /\ [][NextWrap]_vars

----------------------------------------------------------------------------
(* Wrapped calls whose store or lookup fails, and functions that share a   *)
(* category                                                                *)

\* akshare_api.get_dragon_tiger_dates(stock_code): its category has no entry
\* in DEFAULT_CACHE_CONFIG
get_dragon_tiger_dates ==
    Wrapped("get_dragon_tiger_dates", "dragon_tiger", TRUE, 1800, "stock_code",
            <<Param("stock_code", NoDefault)>>)

\* a function object of the given module (func.__name__ does not tell the
\* module)
InModule(f, module) ==
    [x \in DOMAIN f \cup {"module"} |-> IF x = "module" THEN module ELSE f[x]]

\* eastmoney_api.get_realtime_quote(stock_code)
em_get_realtime_quote ==
    InModule(Wrapped("get_realtime_quote", "realtime_quote", TRUE, 60,
                     "stock_code", <<Param("stock_code", NoDefault)>>),
             "eastmoney_api")
\* akshare_api.get_realtime_quote(stock_code)
ak_get_realtime_quote ==
    InModule(Wrapped("get_realtime_quote", "realtime_quote", TRUE, 60,
                     "stock_code", <<Param("stock_code", NoDefault)>>),
             "akshare_api")

QuoteCall == Call(<<Str("600519")>>, << >>)
WrappedCallsFaults ==
    {<<get_dragon_tiger_dates, Call(<<Str("600519")>>, << >>)>>,
     <<get_dragon_tiger_dates, Call(<<Int_("600519")>>, << >>)>>}
ReturnedFaults == {PyNone, EmptyResult, BigC}
AllIo == {IoOk} \cup IoFaults
\* the outcomes of the file writes the wrapped calls meet: none fails, or
\* pickle.dump raises (an unpicklable result)
WriteOutcomes == {IoOk, [blob |-> "dump", index |-> "ok"]}

\* wrapped calls on the global store with file-system failures in dm.set,
\* the sweeper, the clock, and a new store over the same cache_dir
NextWrapFaults ==
    \/ \E fc \in WrappedCallsFaults, result \in ReturnedFaults,
          io \in WriteOutcomes :
          WrappedCall(fc[1], fc[2], result, io)
    \/ Reconstruct
    \/ Sweep(IoOk)
    \/ Tick

SpecWrapFaults == Init /\ [][NextWrapFaults]_vars

\* the two get_realtime_quote functions called on the one global store
\* (both modules take it from data_manager.get_data_manager)
QuoteFunctions == {em_get_realtime_quote, ak_get_realtime_quote}
NextQuotes ==
    \/ \E f \in QuoteFunctions, result \in ReturnedFaults :
          WrappedCall(f, QuoteCall, result, IoOk)
    \/ ClearAll(IoOk)
    \/ Sweep(IoOk)
    \/ Tick

SpecQuotes == Init /\ [][NextQuotes]_vars

----------------------------------------------------------------------------
(* Sets whose index write can fail, and sweep passes *)

IndexWriteFails == [blob |-> "ok", index |-> "fail"]
NextSweep ==
    \/ \E dt \in DataTypes, id \in Identifiers, v \in Stored,
          io \in {IoOk, IndexWriteFails} : Set(dt, id, v, NoParams, io)
    \/ Sweep(IoOk)
    \/ Tick

SpecSweep == Init /\ [][NextSweep]_vars

----------------------------------------------------------------------------
(* Direct calls with payloads below, at and above the size threshold *)

NextPayloads ==
    \/ \E dt \in DataTypes, id \in Identifiers, v \in Payloads :
          Set(dt, id, v, NoParams, IoOk)
    \/ \E dt \in DataTypes, id \in Identifiers :
          Get(dt, id, NoParams, FALSE, IoOk)
    \/ \E dt \in DataTypes, id \in Identifiers : Delete(dt, id, NoParams, IoOk)
    \/ Tick

SpecPayloads == Init /\ [][NextPayloads]_vars

----------------------------------------------------------------------------
(* Direct calls with parameter dicts *)

\* the items a params dict is made of, and every dict over them: each
\* choice of names, in each insertion order
ParamItems == {<<"start_date", Str("20250101")>>,
               <<"end_date", Str("20251231")>>,
               <<"count", Int_("100")>>, <<"count", Int_("5")>>}
ParamNames == {item[1] : item \in ParamItems}
ParamDicts ==
    {p \in UNION {[1..n -> ParamItems] : n \in 0..Cardinality(ParamNames)} :
        \A i \in DOMAIN p, j \in DOMAIN p : p[i][1] = p[j][1] => i = j}
\* two insertion orders of the same dict
SameItems(p, q) ==
    /\ Len(p) = Len(q)
    /\ {p[i] : i \in 1..Len(p)} = {q[i] : i \in 1..Len(q)}

Range == <<<<"start_date", Str("20250101")>>, <<"end_date", Str("20251231")>>>>
RangeReversed ==
    <<<<"end_date", Str("20251231")>>, <<"start_date", Str("20250101")>>>>
Latest == <<<<"count", Int_("5")>>>>

\* (data_type, identifier, params) of direct calls; CallerInputs are the
\* ones set is called with
CallerInputs == {<<"fund_flow", Str("600519"), Range>>,
                 <<"fund_flow", Str("600519"), Latest>>,
                 <<"fund_flow", Str("600519|SH"), NoParams>>}
OtherInputs == {<<"fund_flow", Str("600519"), RangeReversed>>,
                <<"fund_flow|600519", Str("SH"), NoParams>>}

NextParams ==
    \/ \E a \in CallerInputs : Set(a[1], a[2], SmallA, a[3], IoOk)
    \/ \E a \in CallerInputs \cup OtherInputs : Get(a[1], a[2], a[3], FALSE, IoOk)
    \/ \E a \in OtherInputs : Delete(a[1], a[2], a[3], IoOk)
    \/ Sweep(IoOk)
    \/ Tick

SpecParams == Init /\ [][NextParams]_vars

----------------------------------------------------------------------------
(* Threads that call one decorated function with the same arguments *)

FlightKey ==
    KeyOf(FlightFunction.data_type,
          ResolveIdentifier(FlightFunction, FlightCall), FlightParams)

\* lines 486-489: dm.get; a hit is returned
FLookup(t) ==
    /\ flights[t].pc = "idle"
    /\ \E r \in {DM_get(St, FlightFunction.data_type,
                         ResolveIdentifier(FlightFunction, FlightCall),
                         FlightParams, FALSE, IoOk)} :
          /\ Counted(r.s)
          /\ Install(r.s)
          /\ last' = Last("get", FlightKey,
                          FlightParams, r, 0)
          /\ flights' = [flights EXCEPT
                           ![t].pc = IF r.ret # PyNone THEN "done" ELSE "fetch",
                           ![t].ret = r.ret]
    /\ UNCHANGED <<cache_lock, threads, damaged, singletonVars, wrapperVars,
                   analyzerVars>>

\* line 492: the underlying function is invoked and returns result
FFetch(t, result) ==
    /\ flights[t].pc = "fetch"
    /\ flights' = [flights EXCEPT ![t].pc = "store", ![t].invoked = TRUE,
                                  ![t].result = result]
    /\ UNCHANGED <<cacheVars, damaged, singletonVars, wrapperVars,
                   analyzerVars>>

\* lines 495-511: the result is stored and returned
FStore(t) ==
    /\ flights[t].pc = "store"
    /\ Install(StoreResult(St, FlightFunction,
                           ResolveIdentifier(FlightFunction, FlightCall),
                           FlightParams, flights[t].result, IoOk))
    /\ last' = [op |-> "call", key |-> FlightKey,
                params |-> FlightParams, ret |-> flights[t].result,
                ok |-> TRUE, path |-> "miss", calls |-> 1, g_exp |-> 0]
    /\ flights' = [flights EXCEPT ![t].pc = "done",
                                  ![t].ret = flights[t].result]
    /\ UNCHANGED <<cache_lock, threads, damaged, singletonVars, wrapperVars,
                   analyzerVars>>

NextFlight ==
    \/ \E t \in Fliers : FLookup(t)
    \/ \E t \in Fliers, result \in Stored : FFetch(t, result)
    \/ \E t \in Fliers : FStore(t)

SpecFlight == Init /\ [][NextFlight]_vars

----------------------------------------------------------------------------
(* A damaged index document *)

\* an expire_time text that datetime.fromisoformat rejects
Unparsable == [mm |-> 0, ss |-> 99]

\* a row of cache_index.json is damaged behind the store's back: the
\* document stays well-formed JSON, the expire_time of one row no longer
\* parses
RowDamaged(key) ==
    /\ damaged < MaxDamage
    /\ damaged' = damaged + 1
    /\ key \in DOMAIN index_file
    /\ index_file[key].expire_time # Unparsable
    /\ index_file' = [index_file EXCEPT ![key].expire_time = Unparsable]
    /\ last' = [op |-> "row_damaged", key |-> key, params |-> << >>,
                ret |-> PyNone, ok |-> TRUE, path |-> "", calls |-> 0,
                g_exp |-> 0]
    /\ UNCHANGED <<memory_cache, disk_cache_index, blobs,
                   DEFAULT_CACHE_CONFIG, now, cache_lock, threads, lastSet,
                   singletonVars, wrapperVars, analyzerVars, flights>>

NextDamage ==
    \/ \E dt \in DataTypes, id \in Identifiers :
          Set(dt, id, BigC, NoParams, IoOk)
    \/ \E dt \in DataTypes, id \in Identifiers :
          Get(dt, id, NoParams, FALSE, IoOk)
    \/ Sweep(IoOk)
    \/ Tick
    \/ \E key \in DOMAIN index_file : RowDamaged(key)
    \/ Reconstruct

SpecDamage == Init /\ [][NextDamage]_vars

\* the sweeper thread loops for as long as the process lives
\* (_start_cache_cleanup_thread: while True, the exception of a pass caught
\* inside the loop), so a pass that can change the store is taken
SpecDamageFair == SpecDamage /\ WF_vars(Sweep(IoOk))

----------------------------------------------------------------------------
(* Calls of one decorated function that pass their arguments differently *)

BindActs ==
    {<<get_kline_daily, Call(<<Str("600519")>>, << >>)>>,
     <<get_kline_daily,
       Call(<< >>, <<<<"count", Int_("100")>>, <<"stock_code", Str("600519")>>>>)>>,
     <<ak_get_kline_daily, Call(<<Str("600519")>>, << >>)>>}
NextBind ==
    \/ \E fc \in BindActs : WrappedCall(fc[1], fc[2], BigC, IoOk)
    \/ Sweep(IoOk)
    \/ Tick

SpecBind == Init /\ [][NextBind]_vars

----------------------------------------------------------------------------
(* Claims *)

DirectKeys == {<<dt, id>> : dt \in DataTypes, id \in Identifiers}
RowExpiry(key) == fromisoformat(disk_cache_index[key].expire_time).t

\* C1: get never returns a payload later than the expiry set assigned to
\* that payload, whether it is served from memory or from disk, and the copy
\* a promotion puts into memory carries the disk row's expiry.
C1_HitWithinAssignedExpiry ==
    /\ (last.op = "get" /\ last.ret # PyNone) => now <= last.g_exp
    /\ \A di \in DirectKeys :
         \A key \in {KeyOf(di[1], di[2], NoParams)} :
         \A r \in {DM_get(St, di[1], di[2], NoParams, FALSE, IoOk)} :
            /\ r.ret # PyNone => now <= r.g_exp
            /\ r.path = "disk_hit" =>
                  /\ r.s.mem[key].expire_time = RowExpiry(key)
                  /\ r.s.mem[key].expire_time <= r.g_exp

\* C1 witness: a get was served from the disk tier one clock step before
\* the expiry and left a promoted copy in memory
C1_Witness ==
    /\ last.op = "get" /\ last.path = "disk_hit" /\ last.ret # PyNone
    /\ now > 0 /\ now < last.g_exp
    /\ memory_cache[last.key].source = "disk"
    /\ memory_cache[last.key].expire_time = last.g_exp

\* C2: while the latest set of a key has not been followed by a set, delete
\* or clear_all of that key, a get(C, I) strictly before the expiry returns
\* the payload that was set, whatever sweeps and calls on other keys ran.
C2_SetValueReturnedUntilExpiry ==
    \A di \in DirectKeys :
       \A key \in {KeyOf(di[1], di[2], NoParams)} :
          (key \in DOMAIN lastSet /\ now < lastSet[key].exp) =>
             DM_get(St, di[1], di[2], NoParams, FALSE, IoOk).ret = lastSet[key].val

\* C2 witness: a get returned the payload of a set made at an earlier
\* instant, after the other key was set in between
C2_Witness ==
    /\ last.op = "get" /\ last.ret # PyNone
    /\ last.key \in DOMAIN lastSet
    /\ last.ret = lastSet[last.key].val
    /\ now < lastSet[last.key].exp
    /\ \E k \in DOMAIN lastSet : lastSet[k].exp > lastSet[last.key].exp

\* C3: set(C,I,v1); set(C,I,v2); get(C,I) returns v2, from every reachable
\* state and for every pair of payloads (so for every pair of tiers the two
\* sets write to).
C3_OverwriteWins ==
    \A di \in DirectKeys, v1 \in Payloads, v2 \in Payloads :
       \A s1 \in {DM_set(St, di[1], di[2], v1, NoParams, IoOk).s} :
       \A s2 \in {DM_set(s1, di[1], di[2], v2, NoParams, IoOk).s} :
          DM_get(s2, di[1], di[2], NoParams, FALSE, IoOk).ret = v2

\* C3 witness: the first get after a memory-only set of SmallA returned
\* SmallA while the blob of the earlier, persisted BigC is still on disk
C3_Witness ==
    /\ last.op = "get" /\ last.path = "memory_hit" /\ last.ret = SmallA
    /\ memory_cache[last.key].access_count = 1
    /\ last.key \in DOMAIN blobs /\ blobs[last.key].data = BigC
    /\ ~_should_persist_to_disk("fund_flow", SmallA)

\* C4 (as claimed): once a newer set of a key has succeeded, no get returns
\* an earlier payload of that key: a hit returns the latest set's payload.
C4_NewerSetDestroysOlder ==
    (last.op = "get" /\ last.ret # PyNone /\ last.key \in DOMAIN lastSet) =>
        last.ret = lastSet[last.key].val

\* C5: a key that is valid only on disk is returned by get and copied into
\* memory, and the next get before the expiry is served from memory and
\* reads neither the index nor the blob.
C5_PromotionThenMemory ==
    \A di \in DirectKeys :
       \A key \in {KeyOf(di[1], di[2], NoParams)} :
          /\ ( /\ key \notin DOMAIN memory_cache
               /\ key \in DOMAIN disk_cache_index /\ now < RowExpiry(key)
               /\ key \in DOMAIN blobs /\ blobs[key].ok ) =>
                \A r1 \in {DM_get(St, di[1], di[2], NoParams, FALSE, IoOk)} :
                \A r2 \in {DM_get(r1.s, di[1], di[2], NoParams, FALSE, IoOk)} :
                   /\ r1.ret = blobs[key].data /\ r1.reads = {"index", "blob"}
                   /\ key \in DOMAIN r1.s.mem /\ r1.s.mem[key].data = r1.ret
                   /\ r2.ret = r1.ret /\ r2.path = "memory_hit" /\ r2.reads = {}
          /\ ( /\ key \in DOMAIN memory_cache
               /\ memory_cache[key].source = "disk"
               /\ now < memory_cache[key].expire_time ) =>
                \A r \in {DM_get(St, di[1], di[2], NoParams, FALSE, IoOk)} :
                   /\ r.ret = memory_cache[key].data
                   /\ r.path = "memory_hit" /\ r.reads = {}

\* C5 witness: after a clock step, the first get on a promoted entry was
\* served from memory
C5_Witness ==
    /\ last.op = "get" /\ last.path = "memory_hit"
    /\ memory_cache[last.key].source = "disk"
    /\ memory_cache[last.key].access_count = 1
    /\ now > 0 /\ now < memory_cache[last.key].expire_time

\* C6 (as claimed): a get that finds an expired index row reports a miss and
\* leaves neither the index row nor the blob file of that key.
C6_ExpiredRowAndBlobDeleted ==
    (last.op = "get" /\ last.path = "disk_expired") =>
        /\ last.ret = PyNone
        /\ last.key \notin DOMAIN disk_cache_index
        /\ last.key \notin DOMAIN blobs

\* C7 (as claimed): a get that finds an unexpired index row whose blob is
\* missing or unreadable reports a miss without raising and leaves the index
\* without that key.
C7_UnreadableBlobRowDropped ==
    (last.op = "get" /\ last.path = "disk_error") =>
        /\ last.ret = PyNone /\ last.ok
        /\ last.key \notin DOMAIN disk_cache_index

\* C8 (as claimed): after one sweep pass no memory entry and no index row
\* whose expiry has passed remains, and no blob file of an entry whose
\* expiry has passed remains.
C8_SweepLeavesNothingExpired ==
    last.op = "sweep" =>
        /\ \A k \in DOMAIN memory_cache : ~(now > memory_cache[k].expire_time)
        /\ \A k \in DOMAIN disk_cache_index : ~(now > RowExpiry(k))
        /\ \A k \in DOMAIN blobs : blobs[k].ok => ~(now > blobs[k].g_exp)

WrapKey(f, call) ==
    KeyOf(f.data_type, ResolveIdentifier(f, call), OtherParams(f, call))

\* C9: a wrapped call that misses, invokes the function and returns a
\* non-null r stores r; a repeat of the call returns r without invoking the
\* function, and so does every call with those arguments before the expiry
\* while no delete or clear_all removed the entry.
C9_FetchThrough ==
    \A fc \in WrappedCalls :
       /\ \A r \in Returned \ {PyNone} :
          \A c1 \in {wrapper(St, fc[1], fc[2], r, IoOk)} :
             (c1.gets = 1 /\ c1.calls = 1) =>
                \A key \in {WrapKey(fc[1], fc[2])} :
                   /\ c1.ret = r
                   /\ key \in DOMAIN c1.s.lastSet
                   /\ c1.s.lastSet[key].val = r
                   /\ now <= c1.s.lastSet[key].exp
                   /\ \A r2 \in Returned :
                      \A c2 \in {wrapper(c1.s, fc[1], fc[2], r2, IoOk)} :
                         c2.ret = r /\ c2.calls = 0
       /\ Truthy(ResolveIdentifier(fc[1], fc[2])) =>
             \A key \in {WrapKey(fc[1], fc[2])} :
                (key \in DOMAIN lastSet /\ now < lastSet[key].exp) =>
                   \A r2 \in Returned :
                   \A c2 \in {wrapper(St, fc[1], fc[2], r2, IoOk)} :
                      c2.ret = lastSet[key].val /\ c2.calls = 0

\* C9 witness: a wrapped call made after the clock advanced was answered
\* from the cache with the stored result, the function not invoked
C9_Witness ==
    /\ last.op = "call" /\ last.path = "hit" /\ last.calls = 0
    /\ last.key \in DOMAIN lastSet
    /\ last.ret = lastSet[last.key].val
    /\ now > 0 /\ lastSet[last.key].exp = 300

\* the value Python binds to identifier_param in a call, NoneArg when the
\* parameter is not declared or not passed
PassedIdentifier(f, call) ==
    LET i == IndexOf(f.sig, f.identifier_param) IN
    IF i = 0 THEN NoneArg
    ELSE IF i <= Len(call.args) THEN call.args[i]
    ELSE IF HasName(call.kwargs, f.identifier_param)
         THEN Lookup(call.kwargs, f.identifier_param)
    ELSE NoneArg

\* C10: a wrapped call whose identifier is not declared, not passed, or
\* passed as None or empty invokes the function exactly once, returns its
\* result, makes no cache get or set and leaves tiers and TTL table as
\* they were.
C10_Bypass ==
    \A fc \in WrappedCalls, result \in Returned :
       ~Truthy(PassedIdentifier(fc[1], fc[2])) =>
          \A c \in {wrapper(St, fc[1], fc[2], result, IoOk)} :
             /\ c.calls = 1 /\ c.ret = result /\ ~c.raised
             /\ c.gets = 0 /\ c.sets = 0
             /\ c.s = St

\* C10 witness: a bypassing call returned the function's result while the
\* cache held entries
C10_Witness ==
    /\ last.op = "call" /\ last.path = "bypass" /\ last.calls = 1
    /\ last.ret = BigC
    /\ memory_cache # EmptyDict /\ disk_cache_index # EmptyDict

\* C11 (as claimed): a wrapped call that missed and whose function returned
\* None or an empty value leaves no memory entry under the call's key.
C11_EmptyResultNotStored ==
    (last.op = "call" /\ last.path = "miss"
        /\ last.ret \in {PyNone, EmptyResult}) =>
       last.key \notin DOMAIN memory_cache

\* C12: a wrapped call that invokes the function returns the function's
\* result and raises nothing, whatever failure the blob or index write of
\* dm.set meets.
C12_MissReturnsFunctionResult ==
    /\ (last.op = "call" /\ last.calls = 1) => last.ok
    /\ \A fc \in WrappedCallsFaults, result \in ReturnedFaults, io \in AllIo :
          \A c \in {wrapper(St, fc[1], fc[2], result, io)} :
             c.calls = 1 => (c.ret = result /\ ~c.raised)

\* C12 witness: a call missed and returned BigC while the disk write of its
\* store failed (BigC is in memory, and the index has no row for it)
C12_Witness ==
    /\ last.op = "call" /\ last.path = "miss" /\ last.ret = BigC /\ last.ok
    /\ last.key \in DOMAIN memory_cache
    /\ memory_cache[last.key].data = BigC
    /\ _should_persist_to_disk("dragon_tiger", BigC)
    /\ last.key \notin DOMAIN disk_cache_index

\* C13 (as claimed): no wrapped call ends with an exception of the cache
\* layer.
C13_LookupFailureIsMiss ==
    last.op = "call" => last.ok

\* C14 (as claimed): after a wrapped call with an override TTL the TTL table
\* is what it was before the call (no other operation writes the table).
C14_TtlTableRestored ==
    last.op = "call" => DEFAULT_CACHE_CONFIG = InitialCacheConfig

\* C17 (as claimed): a result stored by eastmoney_api.get_realtime_quote is
\* never returned by akshare_api.get_realtime_quote called with the same
\* arguments, and conversely: the second function is invoked and its own
\* result returned.
C17_OperationsNeverShareKey ==
    \A f \in QuoteFunctions, g \in QuoteFunctions :
       f # g =>
          \A c1 \in {wrapper(St, f, QuoteCall, EmptyResult, IoOk)} :
          \A c2 \in {wrapper(c1.s, g, QuoteCall, BigC, IoOk)} :
             c1.sets = 1 => (c2.calls = 1 /\ c2.ret = BigC)

\* the keys of every two insertion orders of one dict are equal
KeyIgnoresInsertionOrder ==
    \A p \in ParamDicts, q \in ParamDicts :
       \A dt \in DataTypes, id \in Identifiers :
          SameItems(p, q) =>
             _get_cache_key(dt, id, p) = _get_cache_key(dt, id, q)

\* C15: two params dicts that hold the same items in a different insertion
\* order give the same cache key, and from every reachable state a get with
\* one order returns what a set with the other order stored.
C15_KeyIgnoresInsertionOrder ==
    /\ KeyIgnoresInsertionOrder
    /\ \A s1 \in {DM_set(St, "fund_flow", Str("600519"), BigC, Range, IoOk).s} :
          DM_get(s1, "fund_flow", Str("600519"), RangeReversed, FALSE, IoOk).ret
             = BigC

\* C15 witness: a get whose params were inserted end_date first returned
\* the payload of a set whose params were inserted start_date first
C15_Witness ==
    /\ last.op = "get" /\ last.ret = SmallA
    /\ last.params = RangeReversed /\ last.params # Range
    /\ last.key = KeyOf("fund_flow", Str("600519"), Range)

\* C16 (as claimed): inputs that differ in category, identifier or a
\* parameter item give different canonical strings, so on a store that
\* holds one entry a get with different inputs misses.
KeyInputs ==
    {<<dt, Str(id), p>> : dt \in {"fund_flow", "fund_flow|600519"},
                          id \in {"600519", "SH", "600519|SH"},
                          p \in {NoParams, Range, RangeReversed, Latest}}
C16_KeyInjective ==
    \A a \in KeyInputs, b \in KeyInputs :
       (a[1] # b[1] \/ a[2] # b[2] \/ ~SameItems(a[3], b[3])) =>
          /\ KeyOf(a[1], a[2], a[3]) # KeyOf(b[1], b[2], b[3])
          /\ \A s0 \in {DM_clear_all(St, IoOk).s} :
             \A s1 \in {DM_set(s0, a[1], a[2], SmallA, a[3], IoOk).s} :
                DM_get(s1, b[1], b[2], b[3], FALSE, IoOk).ret = PyNone

\* C18 (as claimed): between operations, every key of the disk index has a
\* blob file that is completely written and readable.
C18_IndexedBlobReadable ==
    \A k \in DOMAIN disk_cache_index : k \in DOMAIN blobs /\ blobs[k].ok

\* C19: a thread that is inside a with block (before or after its reads and
\* writes of the tiers) owns the lock, so no two threads are inside at once.
InBlock == {t \in Threads : threads[t].pc \in {"locked", "release"}}
C19_TiersUnderLock ==
    /\ \A t \in InBlock : cache_lock.owner = t /\ cache_lock.count = 1
    /\ Cardinality(InBlock) <= 1

\* C19 witness: the sweeper is inside its pass while both callers wait for
\* the lock, one with a get and one with a set
C19_Witness ==
    /\ threads["sweeper"].pc = "locked"
    /\ \A t \in Callers : threads[t].pc = "acquire"
    /\ {threads[t].call.op : t \in Callers} = {"get", "set"}
    /\ memory_cache # EmptyDict

ThreadKey == KeyOf("fund_flow", Str("600519"), << >>)
MemValid(key) ==
    key \in DOMAIN memory_cache /\ ~is_expired(memory_cache[key], now)
DiskOnlyValid(key) ==
    /\ ~MemValid(key)
    /\ key \in DOMAIN disk_cache_index /\ now < RowExpiry(key)
    /\ key \in DOMAIN blobs /\ blobs[key].ok
\* the step in which thread t runs the body of a get
GetStep(t) ==
    /\ threads[t].pc = "locked" /\ threads[t].call.op = "get"
    /\ threads'[t].pc = "release"

\* C21: of the gets that threads run on a key valid only on disk, the one that
\* finds no memory entry reads the blob and creates the entry with counter 0;
\* every get that finds the entry leaves blob and index alone and adds
\* exactly one to the counter of that same entry.
C21_NoDoublePromotion ==
    [][\A t \in Callers : GetStep(t) =>
          /\ DiskOnlyValid(ThreadKey) =>
                /\ ThreadKey \in DOMAIN memory_cache'
                /\ memory_cache'[ThreadKey] =
                      CacheEntry(blobs[ThreadKey].data, RowExpiry(ThreadKey),
                                 "disk", blobs[ThreadKey].g_exp)
          /\ MemValid(ThreadKey) =>
                /\ memory_cache' =
                      [memory_cache EXCEPT ![ThreadKey].access_count = @ + 1]
                /\ blobs' = blobs /\ disk_cache_index' = disk_cache_index]_vars

\* C21 witness: one caller has just promoted the key and is leaving its with
\* block while the other caller waits for the lock with a get of the same key
C21_Witness ==
    \E t, u \in Callers :
       /\ t # u
       /\ threads[t].pc = "release" /\ threads[t].call.op = "get"
       /\ threads[u].pc = "acquire" /\ threads[u].call.op = "get"
       /\ ThreadKey \in DOMAIN memory_cache
       /\ memory_cache[ThreadKey].source = "disk"
       /\ memory_cache[ThreadKey].access_count = 0

\* C22: a set puts the entry in the memory tier; it writes the blob, the
\* index row and the index document when the category is financial_statements,
\* kline_daily or kline_weekly or the payload's string form is longer than
\* 10000, and leaves blobs, index and document untouched otherwise.
PersistAllowlist == {"financial_statements", "kline_daily", "kline_weekly"}
PersistThreshold == 10000
C22_PersistIffAllowlistedOrLarge ==
    \A dt \in DataTypes, id \in Identifiers, v \in Payloads :
       \A r \in {DM_set(St, dt, id, v, NoParams, IoOk)} :
       \A key \in {KeyOf(dt, id, NoParams)} :
          /\ r.ok
          /\ key \in DOMAIN r.s.mem /\ r.s.mem[key].data = v
          /\ IF dt \in PersistAllowlist \/ v.len > PersistThreshold
             THEN /\ key \in DOMAIN r.s.idx /\ key \in DOMAIN r.s.blobs
                  /\ r.s.blobs[key].ok /\ r.s.blobs[key].data = v
                  /\ fromisoformat(r.s.idx[key].expire_time).t
                        = r.s.mem[key].expire_time
                  /\ r.s.file = r.s.idx
             ELSE /\ r.s.idx = disk_cache_index /\ r.s.blobs = blobs
                  /\ r.s.file = index_file

\* C22 witness: a payload of exactly 10000 characters was set in fund_flow
\* and is in memory without a row or a blob
C22_Witness ==
    /\ last.op = "set" /\ last.ok
    /\ last.key = KeyOf("fund_flow", Str("600519"), NoParams)
    /\ memory_cache[last.key].data = EdgeB
    /\ last.key \notin DOMAIN disk_cache_index
    /\ last.key \notin DOMAIN blobs

\* C23 (as claimed): after a set, the in-memory index holds a row of that
\* write only if the write of the blob and of the index document succeeded,
\* i.e. only if the document holds the same row.
C23_FailedWriteLeavesNoRow ==
    (/\ last.op = "set"
     /\ last.key \in DOMAIN disk_cache_index
     /\ last.key \in DOMAIN lastSet
     /\ RowExpiry(last.key) = lastSet[last.key].exp)
       => /\ last.key \in DOMAIN index_file
          /\ index_file[last.key] = disk_cache_index[last.key]

\* C24 (as claimed): at most one DataManager is ever constructed (so at most
\* one sweeper thread is started), and every call of get_data_manager that
\* has returned, returned that one instance.
C24_OneStoreOneSweeper ==
    /\ constructed <= 1
    /\ \A t \in Getters : getters[t].pc = "done" => getters[t].ret = 1

\* the i-th source of a priority list yields data in an environment
Yields(priority, i, env) ==
    \/ priority[i] = "akshare" /\ env.ak_available /\ env.ak = "data"
    \/ priority[i] = "eastmoney" /\ env.em = "data"
\* the i-th source is one the function can ask
Askable(priority, i, env) ==
    \/ priority[i] = "akshare" /\ env.ak_available
    \/ priority[i] = "eastmoney"
DataOf(source) == IF source = "akshare" THEN AkData ELSE EmData
\* the askable sources among the first n of a priority list, in order
RECURSIVE AskedUpTo(_, _, _)
AskedUpTo(priority, n, env) ==
    IF n = 0 THEN << >>
    ELSE AskedUpTo(priority, n - 1, env)
           \o (IF Askable(priority, n, env) THEN <<priority[n]>> ELSE << >>)

\* C25: a call that finds data in the cache returns it, asks no source and
\* saves nothing; a call that finds none asks the sources in priority order
\* up to the first that yields data, saves that data once and returns it; it
\* returns None exactly when no source of the list yields data.
C25_CacheFirstOrderedFallback ==
    fetched.called =>
       \A p \in {fetched.priority}, e \in {fetched.env} :
       IF fetched.loaded # NoData
       THEN /\ fetched.ret = fetched.loaded
            /\ fetched.queried = << >> /\ fetched.saved = << >>
       ELSE LET good == {i \in 1..Len(p) : Yields(p, i, e)} IN
            IF good = {}
            THEN /\ fetched.ret = NoData /\ fetched.saved = << >>
                 /\ fetched.queried = AskedUpTo(p, Len(p), e)
            ELSE \A j \in {i \in good : \A k \in good : i <= k} :
                    /\ fetched.ret = DataOf(p[j])
                    /\ fetched.saved = <<DataOf(p[j])>>
                    /\ fetched.queried = AskedUpTo(p, j, e)

\* C25 witness: with the default priority and nothing cached, akshare was
\* asked and failed, eastmoney was asked next and its data was saved and
\* returned
C25_Witness ==
    /\ fetched.called /\ fetched.loaded = NoData
    /\ fetched.priority = DEFAULT_SOURCE_PRIORITY
    /\ fetched.queried = <<"akshare", "eastmoney">>
    /\ fetched.ret = EmData /\ fetched.saved = <<EmData>>
    /\ index_cache.exists /\ index_cache.data = EmData

\* C26 (as claimed): a get returns a value from the memory tier only
\* strictly before the entry's expiry, as the disk tier does.
C26_MemoryHitStrictlyBeforeExpiry ==
    (last.op = "get" /\ last.path = "memory_hit")
       => now < memory_cache[last.key].expire_time

\* C27 (as claimed): when no wrapped call is in progress, the TTL table
\* entry of the category is the one it had before the calls started.
C27_TableRestoredAfterAllReturn ==
    (\A t \in Callers : wrappers[t].pc = "idle")
       => DEFAULT_CACHE_CONFIG["search_data"] = InitialCacheConfig["search_data"]

\* C28 (as claimed): the entry a set has just stored expires at the time of
\* the set plus the TTL of its own caller: the decorator's TTL for the set of
\* a wrapped call, the table's TTL for a direct set.
C28_ExpiryFromOwnTtl ==
    (last.op = "set" /\ last.key \in DOMAIN memory_cache)
       => memory_cache[last.key].expire_time =
             now + (IF last.calls = 1 THEN OverrideFunction.ttl
                    ELSE _get_cache_ttl(InitialCacheConfig, "search_data"))

\* C29 (as claimed): a get that has just returned a value has counted itself
\* on the key's memory entry, also when it served the value from disk.
C29_EveryHitCounted ==
    (last.op = "get" /\ last.ret # PyNone)
       => /\ last.key \in DOMAIN memory_cache
          /\ memory_cache[last.key].access_count >= 1

\* C30: a sweep pass leaves every memory entry whose expiry has not passed,
\* and every index row whose expiry has not passed together with its blob,
\* exactly as they were, removes nothing else than expired entries and rows,
\* and rewrites the index document only when it removed a row.
LiveEntries == {k \in DOMAIN memory_cache : now <= memory_cache[k].expire_time}
LiveRows == {k \in DOMAIN disk_cache_index : now <= RowExpiry(k)}
C30_SweepRemovesOnlyExpired ==
    \A r \in {_cleanup_expired_cache(St, IoOk)} :
       /\ \A k \in LiveEntries :
             k \in DOMAIN r.s.mem /\ r.s.mem[k] = memory_cache[k]
       /\ \A k \in LiveRows :
             /\ k \in DOMAIN r.s.idx /\ r.s.idx[k] = disk_cache_index[k]
             /\ k \in DOMAIN blobs
                   => k \in DOMAIN r.s.blobs /\ r.s.blobs[k] = blobs[k]
       /\ DOMAIN r.s.mem = LiveEntries
       /\ DOMAIN r.s.idx = LiveRows
       /\ IF LiveRows = DOMAIN disk_cache_index
          THEN r.s.file = index_file
          ELSE r.s.file = r.s.idx

\* C30 witness: a pass has just removed an expired key from both tiers and
\* left another key, at the instant of its expiry, in both tiers, with its
\* row in the rewritten document
C30_Witness ==
    /\ last.op = "sweep"
    /\ \E k \in DOMAIN lastSet :
          /\ now > lastSet[k].exp
          /\ k \notin DOMAIN memory_cache /\ k \notin DOMAIN disk_cache_index
          /\ k \notin DOMAIN blobs
    /\ \E k \in LiveEntries \cap LiveRows :
          /\ now = memory_cache[k].expire_time
          /\ k \in DOMAIN blobs /\ k \in DOMAIN index_file

\* the expiry of a memory entry, of an index row, has passed
MemExpired(key) ==
    key \in DOMAIN memory_cache /\ is_expired(memory_cache[key], now)
RowParses(key) == fromisoformat(disk_cache_index[key].expire_time).ok
RowExpired(key) ==
    key \in DOMAIN disk_cache_index /\ RowParses(key) /\ now > RowExpiry(key)

\* C31 (as claimed): the sweeper passes go on for the life of the process,
\* so every memory entry and every index row whose expiry has passed is
\* eventually removed, whatever the other index rows contain.
C31_ExpiredEventuallySwept ==
    \A c \in DirectKeys :
        (MemExpired(KeyOf(c[1], c[2], NoParams))
            \/ RowExpired(KeyOf(c[1], c[2], NoParams)))
        ~> ~(MemExpired(KeyOf(c[1], c[2], NoParams))
                \/ RowExpired(KeyOf(c[1], c[2], NoParams)))

\* C34 (as claimed): a get for a key whose index row is malformed reports a
\* miss without raising and leaves the index without that row.
C34_MalformedRowDropped ==
    \A c \in DirectKeys :
        \A key \in {KeyOf(c[1], c[2], NoParams)} :
            (/\ key \in DOMAIN disk_cache_index
             /\ key \notin DOMAIN memory_cache
             /\ ~RowParses(key))
            => \A r \in {DM_get(St, c[1], c[2], NoParams, FALSE, IoOk)} :
                  /\ r.ok /\ r.ret = PyNone
                  /\ key \notin DOMAIN r.s.idx

\* the part of a dict that belongs to the keys other than key
Others(d, key) == [k \in (DOMAIN d) \ {key} |-> d[k]]

\* C32 (as claimed): delete reports success and leaves the key absent from
\* the memory tier, the disk index and the blob files, the next get for it
\* is a miss, and the entries, rows and blobs of the other keys are as they
\* were; on a key held nowhere it changes nothing.
C32_DeleteRemovesKeyOnly ==
    \A c \in DirectKeys :
        \A key \in {KeyOf(c[1], c[2], NoParams)} :
        \A r \in {DM_delete(St, c[1], c[2], NoParams, IoOk)} :
            /\ r.ok
            /\ key \notin DOMAIN r.s.mem
            /\ key \notin DOMAIN r.s.idx
            /\ key \notin DOMAIN r.s.blobs
            /\ DM_get(r.s, c[1], c[2], NoParams, FALSE, IoOk).ret = PyNone
            /\ Others(r.s.mem, key) = Others(memory_cache, key)
            /\ Others(r.s.idx, key) = Others(disk_cache_index, key)
            /\ Others(r.s.blobs, key) = Others(blobs, key)
            /\ (/\ key \notin DOMAIN memory_cache
                /\ key \notin DOMAIN disk_cache_index
                /\ key \notin DOMAIN blobs)
               => /\ r.s.mem = memory_cache /\ r.s.idx = disk_cache_index
                  /\ r.s.blobs = blobs /\ r.s.file = index_file

\* what each operation of the store leaves when its index write does not
\* fail, from the current state
Completed ==
    UNION {{DM_get(St, c[1], c[2], NoParams, FALSE, IoOk),
            DM_delete(St, c[1], c[2], NoParams, IoOk)}
           \cup {DM_set(St, c[1], c[2], v, NoParams, IoOk) : v \in Stored}
           : c \in DirectKeys}
    \cup {DM_clear_all(St, IoOk), _cleanup_expired_cache(St, IoOk)}

LastPersisted(data_type, key) ==
    IF data_type \in PersistAllowlist THEN lastSet[key].val ELSE BigC

\* C35: a store constructed over the directory the current store leaves
\* returns the value last persisted for every key whose row in the index
\* document is unexpired and whose blob is intact, and reports a miss for
\* every key the current store holds in its memory tier only.
C35_PersistenceAcrossReconstruction ==
    \A c \in DirectKeys :
        \A key \in {KeyOf(c[1], c[2], NoParams)} :
        \A r \in {DM_get(DM_init(St), c[1], c[2], NoParams, FALSE, IoOk)} :
            /\ (/\ key \in DOMAIN index_file
                /\ fromisoformat(index_file[key].expire_time).ok
                /\ now < fromisoformat(index_file[key].expire_time).t
                /\ key \in DOMAIN blobs /\ blobs[key].ok)
               => r.ok /\ r.ret = LastPersisted(c[1], key)
            /\ (/\ key \in DOMAIN memory_cache
                /\ key \notin DOMAIN disk_cache_index
                /\ key \notin DOMAIN index_file)
               => r.ok /\ r.ret = PyNone

\* a get of the new store returned from disk the small payload persisted by
\* the earlier store, while another key is held in memory only
C35_Witness ==
    /\ last.op = "get" /\ last.path = "disk_hit"
    /\ last.ret = SmallA /\ lastSet[last.key].val = SmallA
    /\ \E k \in DOMAIN memory_cache :
          k # last.key /\ k \notin DOMAIN index_file

\* calls of eastmoney_api.get_kline_daily and akshare_api.get_kline_daily:
\* arguments passed by position, by keyword (in either order) or left to
\* their defaults
BindCalls ==
    {<<get_kline_daily, c>> : c \in
        {Call(<<Str("600519")>>, << >>),
         Call(<<Str("600519"), Int_("100")>>, << >>),
         Call(<<Str("600519")>>, <<<<"count", Int_("100")>>>>),
         Call(<< >>, <<<<"stock_code", Str("600519")>>>>),
         Call(<< >>, <<<<"count", Int_("100")>>, <<"stock_code", Str("600519")>>>>),
         Call(<<Str("600519"), Int_("5")>>, << >>),
         Call(<<Str("600519")>>, <<<<"count", Int_("5")>>>>),
         Call(<<Str("600519"), Str("100")>>, << >>),
         Call(<<Str("000001")>>, << >>),
         Call(<< >>, <<<<"stock_code", Str("000001")>>, <<"count", Int_("100")>>>>)}}
    \cup
    {<<ak_get_kline_daily, c>> : c \in
        {Call(<<Str("600519")>>, << >>),
         Call(<<Str("600519"), NoneArg, NoneArg>>, << >>),
         Call(<< >>, <<<<"end_date", NoneArg>>, <<"stock_code", Str("600519")>>>>),
         Call(<<Str("600519"), Str("20250101")>>, << >>),
         Call(<<Str("600519")>>, <<<<"start_date", Str("20250101")>>>>),
         Call(<<Str("600519"), NoneArg, Str("20250101")>>, << >>),
         Call(<<Str("600519")>>, <<<<"end_date", Str("20250101")>>>>),
         Call(<<Str("000001")>>, <<<<"start_date", Str("20250101")>>>>)}}

\* the value Python binds to the i-th parameter of f in a call
BoundValue(f, call, i) ==
    IF i <= Len(call.args) THEN call.args[i]
    ELSE IF HasName(call.kwargs, f.sig[i].name)
         THEN Lookup(call.kwargs, f.sig[i].name)
    ELSE f.sig[i].default
SameBinding(f, c1, c2) ==
    \A i \in 1..Len(f.sig) : BoundValue(f, c1, i) = BoundValue(f, c2, i)

\* the keys of the calls follow the bound values
KeysFollowBinding ==
    \A a \in BindCalls, b \in BindCalls :
        a[1] = b[1] =>
            (SameBinding(a[1], a[2], b[2])
                <=> WrapKey(a[1], a[2]) = WrapKey(b[1], b[2]))
SameBound == {ab \in BindCalls \X BindCalls :
                 ab[1][1] = ab[2][1] /\ SameBinding(ab[1][1], ab[1][2], ab[2][2])}
OtherBound == {ab \in BindCalls \X BindCalls :
                 ab[1][1] = ab[2][1] /\ ~SameBinding(ab[1][1], ab[1][2], ab[2][2])}

\* C36: two calls of one wrapped function that bind the same values use
\* the same key, so the second is served what the first left in the cache;
\* two calls that differ in the identifier or in another bound argument
\* use different keys, so on a store that holds only the first call's entry
\* the second invokes the function.
C36_KeyFromBoundValues ==
    /\ KeysFollowBinding
    /\ \A ab \in SameBound :
          \A r1 \in {wrapper(St, ab[1][1], ab[1][2], SmallA, IoOk)} :
          \A r2 \in {wrapper(r1.s, ab[2][1], ab[2][2], BigC, IoOk)} :
             r2.calls = 0 /\ r2.ret = r1.ret
    /\ \A s0 \in {DM_clear_all(St, IoOk).s} :
       \A ab \in OtherBound :
          \A r1 \in {wrapper(s0, ab[1][1], ab[1][2], SmallA, IoOk)} :
          \A r2 \in {wrapper(r1.s, ab[2][1], ab[2][2], BigC, IoOk)} :
             r1.sets = 1 /\ r2.calls = 1 /\ r2.ret = BigC

\* get_kline_daily("600519") stored its result, and the call that passes
\* count=100 by keyword is served that result
C36_Witness ==
    /\ last.op = "call" /\ last.path = "miss" /\ last.ret = BigC
    /\ last.key = WrapKey(get_kline_daily, Call(<<Str("600519")>>, << >>))
    /\ \A r \in {wrapper(St, get_kline_daily,
                         Call(<< >>, <<<<"count", Int_("100")>>,
                                       <<"stock_code", Str("600519")>>>>),
                         SmallA, IoOk)} :
          r.calls = 0 /\ r.ret = BigC

\* C37 (as claimed): of the calls of one decorated function with the same
\* arguments that start while the key is absent, at most one invokes the
\* underlying function, and once all have returned each has returned the
\* value stored for the key.
C37_FetchedOnce ==
    /\ Cardinality({t \in Fliers : flights[t].invoked}) <= 1
    /\ (\A t \in Fliers : flights[t].pc = "done") =>
          \A t \in Fliers :
             flights[t].ret
                = memory_cache[FlightKey].data

====
